---------------------------- MODULE Spec2Model ----------------------------
(***************************************************************************)
(* HMM pinyin input method: the parameter store, the batch Viterbi         *)
(* decoder with its beam top-k variant, and the incremental decoder        *)
(* (IncrementalViterbi) that keeps one trellis layer per committed token.  *)
(*                                                                         *)
(* Characters are named by strings ("You" for ni3, "Ni" for ni2, "Hao"     *)
(* and "Num" for hao, "Ha" for ha); a pinyin is the sequence of its        *)
(* letters, so that str.startswith can be computed; a Python str of Han    *)
(* characters is the sequence of its characters.  A Python dict is the     *)
(* sequence of its items in insertion order.                               *)
(***************************************************************************)
EXTENDS Integers, Sequences, FiniteSets, TLC

VARIABLES
    candidates_map,   \* the session's lexicon: items <<pinyin, candidates>>
    hmm,              \* the parameter store [init, trans, emit]
    beam_size,        \* IncrementalViterbi.beam_size
    bigram_bonus,     \* Optional mapping pair -> bonus
    pinyin_buffer,    \* IncrementalViterbi.pinyin_buffer
    dp_states,        \* IncrementalViterbi.dp_states
    op,               \* the last public operation and its argument
    ret,              \* what the last public operation returned
    pre,              \* pinyin_buffer and dp_states before the last operation
    undo,             \* the session as add_pinyin found it, while only
                      \* delete_last has followed that add_pinyin
    b_pc,             \* batch call: "input" before the call, else the function called
    b_seq,            \* batch call: pinyin_seq
    b_k,              \* batch call: k
    b_beam,           \* batch call: beam_size (Optional)
    b_out,            \* batch call: the value returned
    f_pc,             \* call of a store or lexicon function: "input"
                      \* before the call, else the function called
    f_in,             \* its arguments, or the file save has written
    f_out,            \* the value returned
    ime_pinyin_buffer,\* IMEApp.pinyin_buffer: the letters typed and not yet confirmed
    confirmed_text,   \* IMEApp.confirmed_text
    is_inputting,     \* IMEApp.is_inputting
    candidate_buttons,\* the texts of IMEApp.candidate_buttons
    last_key          \* the last key event IMEApp handled

vars == <<candidates_map, hmm, beam_size, bigram_bonus, pinyin_buffer,
          dp_states, op, ret, pre, undo, b_pc, b_seq, b_k, b_beam, b_out,
          f_pc, f_in, f_out, ime_pinyin_buffer, confirmed_text, is_inputting,
          candidate_buttons, last_key>>

config_vars == <<candidates_map, hmm, beam_size, bigram_bonus>>
session_vars == <<pinyin_buffer, dp_states, op, ret, pre, undo>>
batch_vars == <<b_pc, b_seq, b_k, b_beam, b_out>>
call_vars == <<f_pc, f_in, f_out>>
driver_vars == <<ime_pinyin_buffer, confirmed_text, is_inputting,
                 candidate_buttons, last_key>>

-----------------------------------------------------------------------------
(* Bounds of the model *)

\* longest pinyin_buffer of a session
MaxLen == 3
\* longest pinyin_seq of a batch call
MaxSeqLen == 3
\* largest k passed to get_topk_sequences and viterbi_topk
MaxK == 2

-----------------------------------------------------------------------------
(* Python values *)

None == "None"

\* Optional[int]: <<>> is None, <<n>> is n
NoInt == <<>>
SomeInt(n) == <<n>>

Min(a, b) == IF a < b THEN a ELSE b
Max(a, b) == IF a > b THEN a ELSE b

\* s[:k], with Python's meaning of a negative k
PySlice(s, k) ==
    IF k >= 0 THEN SubSeq(s, 1, Min(k, Len(s)))
    ELSE SubSeq(s, 1, Max(Len(s) + k, 0))

\* py.startswith(prefix)
StartsWith(py, prefix) ==
    /\ Len(prefix) <= Len(py)
    /\ SubSeq(py, 1, Len(prefix)) = prefix

NEG_INF == -1000000000

(***************************************************************************)
(* A float is <<f, g, r>>: f = -1 is -math.inf (g = r = 0); f = 0 is the   *)
(* number g * 10^9 + r with 0 <= r < 10^9.  The parameter stores of the    *)
(* model hold integers, on which float64 addition is exact, so the          *)
(* arithmetic below is the program's; two digits are used because          *)
(* a sum of several NEG_INF does not fit the model checker's integers.     *)
(***************************************************************************)
Giga == -NEG_INF
MINUS_INF == <<-1, 0, 0>>
Float(n) == <<0, n \div Giga, n % Giga>>

FAdd(a, b) ==
    IF a[1] = -1 \/ b[1] = -1 THEN MINUS_INF
    ELSE LET s == a[3] + b[3]
         IN  <<0, a[2] + b[2] + (s \div Giga), s % Giga>>

FGt(a, b) ==
    \/ a[1] > b[1]
    \/ a[1] = b[1] /\ a[2] > b[2]
    \/ a[1] = b[1] /\ a[2] = b[2] /\ a[3] > b[3]

FGe(a, b) == a = b \/ FGt(a, b)

\* the order sorted(..., reverse=True) puts items with these keys in: by key,
\* highest first, items with equal keys in their original order
SortedDesc(keys) ==
    LET n == Len(keys)
        pos(i) == 1 + Cardinality({j \in 1..n :
                          \/ FGt(keys[j], keys[i])
                          \/ keys[j] = keys[i] /\ j < i})
    IN  [p \in 1..n |-> CHOOSE i \in 1..n : pos(i) = p]

\* sorted(items, key=..., reverse=True), keys[i] being the key of items[i]
SortDescBy(items, keys) ==
    LET order == SortedDesc(keys)
    IN  [p \in 1..Len(items) |-> items[order[p]]]

\* max(items, key=...): the index of the first item with the highest key
ArgMaxFirst(keys) == SortedDesc(keys)[1]

-----------------------------------------------------------------------------
(* dict as a sequence of <<key, value>> items in insertion order *)

DictHas(d, key) == \E i \in 1..Len(d) : d[i][1] = key
DictGet(d, key) == d[CHOOSE i \in 1..Len(d) : d[i][1] = key][2]
\* d[key] = value: an existing key keeps its place
DictPut(d, key, value) ==
    IF DictHas(d, key)
    THEN [i \in 1..Len(d) |-> IF d[i][1] = key THEN <<key, value>> ELSE d[i]]
    ELSE Append(d, <<key, value>>)

\* candidates_map.get(pinyin, [])
CandidatesOf(cmap, pinyin) ==
    IF DictHas(cmap, pinyin) THEN DictGet(cmap, pinyin) ELSE <<>>

-----------------------------------------------------------------------------
(* HMMParams *)

get_init(h, ch) ==
    IF ch \in DOMAIN h.init THEN h.init[ch] ELSE NEG_INF

\* get_trans answering 0 for a missing outer key
get_trans_outer_zero(h, prev_ch, ch) ==
    IF prev_ch \notin DOMAIN h.trans THEN 0
    ELSE IF ch \in DOMAIN h.trans[prev_ch] THEN h.trans[prev_ch][ch] ELSE NEG_INF

get_trans(h, prev_ch, ch) ==
    IF prev_ch \in DOMAIN h.trans /\ ch \in DOMAIN h.trans[prev_ch]
    THEN h.trans[prev_ch][ch] ELSE NEG_INF

\* get_emit answering twice NEG_INF for a missing entry
get_emit_doubled(h, ch, py) ==
    IF ch \in DOMAIN h.emit /\ py \in DOMAIN h.emit[ch]
    THEN h.emit[ch][py] ELSE 2 * NEG_INF

get_emit(h, ch, py) ==
    IF ch \in DOMAIN h.emit /\ py \in DOMAIN h.emit[ch]
    THEN h.emit[ch][py] ELSE NEG_INF

\* a given table charging one for every pair it does not define
BonusOfDefaulting(bonus, prev_char, curr_char) ==
    IF ~bonus.given THEN 0
    ELSE IF <<prev_char, curr_char>> \in DOMAIN bonus.table
         THEN bonus.table[<<prev_char, curr_char>>]
         ELSE -1

\* bonus = 0.0; if bigram_bonus and prev_char: bonus = bigram_bonus.get(pair, 0.0)
\* (a bonus table is [given |-> BOOLEAN, table |-> function on pairs];
\* None and the empty dict are both falsy)
BonusOf(bonus, prev_char, curr_char) ==
    IF bonus.given /\ DOMAIN bonus.table # {} /\ <<prev_char, curr_char>> \in DOMAIN bonus.table
    THEN bonus.table[<<prev_char, curr_char>>]
    ELSE 0

-----------------------------------------------------------------------------
(* The inputs the model draws from *)

ni == <<"n", "i">>
hao == <<"h", "a", "o">>
ha == <<"h", "a">>
xx == <<"x", "x">>

\* the lexicon of tests/test_incremental_viterbi.py (test_incremental_prefix)
LexiconToy ==
    << <<ni, <<"You", "Ni">>>>, <<hao, <<"Hao", "Num">>>>, <<ha, <<"Ha">>>> >>

\* a lexicon with other orders, a three-candidate key, a key without
\* candidates, and two characters listed under both hao and ha
LexiconWide ==
    << <<hao, <<"Num", "Hao", "Ha">>>>, <<ni, <<"Ni", "You">>>>, <<xx, <<>>>>,
       <<ha, <<"Ha", "Hao">>>> >>

\* the lexicon of the tests with eleven more keys: the prefix "x" matches
\* two keys of three candidates each and eight keys of one candidate, none
\* of them known to a store, and then an eleventh key whose candidate the
\* stores know
xa == <<"x", "a">>
xb == <<"x", "b">>
xk == <<"x", "k">>
LexiconMany ==
    LexiconToy \o << <<xa, <<"A", "B", "C">>>>, <<xb, <<"D", "E", "F">>>> >>
        \o [i \in 1..8 |->
              <<<<"x", <<"c", "d", "e", "f", "g", "h", "i", "j">>[i]>>, <<"G">>>>]
        \o << <<xk, <<"You">>>> >>

Lexicons == {LexiconToy, LexiconWide}

\* the pinyin a driver may pass: known ones, an unknown one and the empty string
Pinyins == {ni, hao, ha, xx}
PinyinInputs == Pinyins \cup {<<>>}
Prefixes == {<<>>, <<"h">>, ha, <<"x">>}

\* build_toy_hmm of the tests, with integer log-probabilities in the same order
HmmToy ==
    [init  |-> [c \in {"You", "Ni", "Hao", "Num"} |->
                  CASE c = "You" -> -1 [] c = "Ni" -> -2 [] OTHER -> -3],
     trans |-> [c \in {"You", "Ni", "Hao", "Num"} |->
                  CASE c = "You" -> [d \in {"Hao", "Num"} |-> IF d = "Hao" THEN -1 ELSE -3]
                    [] c = "Ni"  -> [d \in {"Hao", "Num"} |-> IF d = "Hao" THEN -2 ELSE -1]
                    [] OTHER     -> [d \in {"You", "Ni"} |-> -2]],
     emit  |-> [c \in {"You", "Ni", "Hao", "Num"} |->
                  IF c \in {"You", "Ni"} THEN [p \in {ni} |-> 0] ELSE [p \in {hao} |-> 0]]]

\* a store in which nothing is stored: every getter answers NEG_INF
HmmEmpty == [init |-> <<>>, trans |-> <<>>, emit |-> <<>>]

\* two paths to "Hao" with equal totals, the better-starting one through "Ni"
HmmTie ==
    [init  |-> [c \in {"You", "Ni"} |-> IF c = "You" THEN -2 ELSE -1],
     trans |-> [c \in {"You", "Ni"} |->
                  [d \in {"Hao", "Num"} |->
                      IF d = "Num" THEN -5 ELSE IF c = "You" THEN -1 ELSE -2]],
     emit  |-> [c \in {"You", "Ni", "Hao", "Num"} |->
                  IF c \in {"You", "Ni"} THEN [p \in {ni} |-> 0] ELSE [p \in {hao} |-> 0]]]

\* the two best two-token paths end in "Hao", the best three-token path
\* goes through "Num"
HmmDetour ==
    [init  |-> [c \in {"You", "Ni"} |-> IF c = "You" THEN -1 ELSE -2],
     trans |-> [c \in {"You", "Ni", "Hao", "Num"} |->
                  CASE c \in {"You", "Ni"} ->
                         [d \in {"Hao", "Num"} |-> IF d = "Hao" THEN -1 ELSE -3]
                    [] c = "Hao" -> [d \in {"You", "Ni"} |-> -10]
                    [] OTHER     -> [d \in {"You", "Ni"} |-> IF d = "You" THEN -1 ELSE -2]],
     emit  |-> [c \in {"You", "Ni", "Hao", "Num"} |->
                  IF c \in {"You", "Ni"} THEN [p \in {ni} |-> 0] ELSE [p \in {hao} |-> 0]]]

Hmms == {HmmToy, HmmEmpty, HmmTie, HmmDetour}

\* bigram_bonus: None, the empty table, and the table of
\* test_bigram_bonus_can_promote_less_likely_pair
BonusNone == [given |-> FALSE, table |-> <<>>]
BonusEmpty == [given |-> TRUE, table |-> <<>>]
BonusYouNum == [given |-> TRUE, table |-> [pair \in {<<"You", "Num">>} |-> 3]]
Bonuses == {BonusNone, BonusEmpty, BonusYouNum}

\* beam sizes of a session: pruning to one, to two, and the default
BeamSizes == {1, 2, 100}
\* the stores and bonus tables sessions are run with
SessionModels ==
    {<<HmmToy, BonusNone>>, <<HmmToy, BonusYouNum>>, <<HmmTie, BonusEmpty>>,
     <<HmmEmpty, BonusNone>>}
\* the stores and bonus tables batch calls are run with
BatchModels ==
    {<<HmmToy, BonusNone>>, <<HmmToy, BonusYouNum>>, <<HmmDetour, BonusYouNum>>,
     <<HmmTie, BonusNone>>, <<HmmEmpty, BonusEmpty>>}
\* the lexicons and beam sizes sessions are run with (the beam sizes that
\* differ on the lexicon's longest candidate list)
SessionBeams ==
    {<<LexiconToy, 1>>, <<LexiconMany, 100>>,
     <<LexiconWide, 1>>, <<LexiconWide, 2>>, <<LexiconWide, 100>>}
\* beam_size of a batch call
BatchBeams == {NoInt, SomeInt(1), SomeInt(2), SomeInt(4)}
\* k of get_topk_sequences and viterbi_topk
Ks == -1..MaxK

-----------------------------------------------------------------------------
(* IncrementalViterbi *)

\* the score of an item of a layer, and its back-pointer
ScoreOf(item) == item[2][1]
BackOf(item) == item[2][2]
Scores(layer) == [i \in 1..Len(layer) |-> ScoreOf(layer[i])]

\* add_pinyin, t == 0 and the restart after an empty layer:
\* dp_t[char] = (init + emit, None) for every candidate
RECURSIVE InitLayerFrom(_, _, _, _)
InitLayerFrom(candidates, pinyin, i, dp_t) ==
    IF i > Len(candidates) THEN dp_t
    ELSE LET char == candidates[i]
             score == FAdd(Float(get_init(hmm, char)), Float(get_emit(hmm, char, pinyin)))
         IN  InitLayerFrom(candidates, pinyin, i + 1, DictPut(dp_t, char, <<score, None>>))

InitLayer(candidates, pinyin) == InitLayerFrom(candidates, pinyin, 1, <<>>)

\* the loop over prev_layer recording curr_char as best_prev
RECURSIVE ExtendCharSelf(_, _, _, _, _, _)
ExtendCharSelf(bonus, prev_layer, curr_char, pinyin, i, best) ==
    IF i > Len(prev_layer) THEN best
    ELSE LET prev_char == prev_layer[i][1]
             prev_score == ScoreOf(prev_layer[i])
             score == FAdd(FAdd(FAdd(prev_score,
                                     Float(get_trans(hmm, prev_char, curr_char))),
                                Float(get_emit(hmm, curr_char, pinyin))),
                           Float(BonusOf(bonus, prev_char, curr_char)))
         IN  ExtendCharSelf(bonus, prev_layer, curr_char, pinyin, i + 1,
                            IF FGt(score, best[1]) THEN <<score, curr_char>> ELSE best)

\* the loop over prev_layer replacing best also by an equal score
RECURSIVE ExtendCharLastBest(_, _, _, _, _, _)
ExtendCharLastBest(bonus, prev_layer, curr_char, pinyin, i, best) ==
    IF i > Len(prev_layer) THEN best
    ELSE LET prev_char == prev_layer[i][1]
             prev_score == ScoreOf(prev_layer[i])
             score == FAdd(FAdd(FAdd(prev_score,
                                     Float(get_trans(hmm, prev_char, curr_char))),
                                Float(get_emit(hmm, curr_char, pinyin))),
                           Float(BonusOf(bonus, prev_char, curr_char)))
         IN  ExtendCharLastBest(bonus, prev_layer, curr_char, pinyin, i + 1,
                                IF FGe(score, best[1]) THEN <<score, prev_char>> ELSE best)

\* add_pinyin, the loop over prev_layer for one curr_char: best is
\* <<best_score, best_prev>>, replaced only by a strictly higher score
RECURSIVE ExtendChar(_, _, _, _, _, _)
ExtendChar(bonus, prev_layer, curr_char, pinyin, i, best) ==
    IF i > Len(prev_layer) THEN best
    ELSE LET prev_char == prev_layer[i][1]
             prev_score == ScoreOf(prev_layer[i])
             score == FAdd(FAdd(FAdd(prev_score,
                                     Float(get_trans(hmm, prev_char, curr_char))),
                                Float(get_emit(hmm, curr_char, pinyin))),
                           Float(BonusOf(bonus, prev_char, curr_char)))
         IN  ExtendChar(bonus, prev_layer, curr_char, pinyin, i + 1,
                        IF FGt(score, best[1]) THEN <<score, prev_char>> ELSE best)

\* the extension with best_score starting at 0.0
RECURSIVE ExtendLayerFromZero(_, _, _, _, _, _)
ExtendLayerFromZero(bonus, prev_layer, candidates, pinyin, i, dp_t) ==
    IF i > Len(candidates) THEN dp_t
    ELSE ExtendLayerFromZero(bonus, prev_layer, candidates, pinyin, i + 1,
             DictPut(dp_t, candidates[i],
                     ExtendChar(bonus, prev_layer, candidates[i], pinyin, 1,
                                <<Float(0), None>>)))

RECURSIVE ExtendLayerFrom(_, _, _, _, _, _)
ExtendLayerFrom(bonus, prev_layer, candidates, pinyin, i, dp_t) ==
    IF i > Len(candidates) THEN dp_t
    ELSE ExtendLayerFrom(bonus, prev_layer, candidates, pinyin, i + 1,
             DictPut(dp_t, candidates[i],
                     ExtendChar(bonus, prev_layer, candidates[i], pinyin, 1,
                                <<MINUS_INF, None>>)))

\* beam pruning of the layer just built
Prune(dp_t) ==
    IF Len(dp_t) > beam_size
    THEN PySlice(SortDescBy(dp_t, Scores(dp_t)), beam_size)
    ELSE dp_t

\* the layer add_pinyin appends for a non-empty pinyin, t = len(pinyin_buffer) - 1
NewLayer(bonus, dp, t, pinyin) ==
    LET candidates == CandidatesOf(candidates_map, pinyin)
    IN  IF candidates = <<>> THEN <<>>
        ELSE IF t = 0 THEN InitLayer(candidates, pinyin)
        ELSE IF dp[t] = <<>> THEN InitLayer(candidates, pinyin)
        ELSE Prune(ExtendLayerFrom(bonus, dp[t], candidates, pinyin, 1, <<>>))

Reverse(s) == [i \in 1..Len(s) |-> s[Len(s) + 1 - i]]

\* the loop of _backtrack_from following back-pointers only while t > 1
RECURSIVE BacktrackLoopShort(_, _, _, _)
BacktrackLoopShort(dp, t, curr_char, chars) ==
    IF t < 0 \/ curr_char = None THEN chars
    ELSE IF t > 1 /\ DictHas(dp[t + 1], curr_char)
         THEN BacktrackLoopShort(dp, t - 1, DictGet(dp[t + 1], curr_char)[2],
                                 Append(chars, curr_char))
         ELSE Append(chars, curr_char)

\* the loop of _backtrack_from, t counting down from layer_idx to 0
RECURSIVE BacktrackLoop(_, _, _, _)
BacktrackLoop(dp, t, curr_char, chars) ==
    IF t < 0 \/ curr_char = None THEN chars
    ELSE IF t > 0 /\ DictHas(dp[t + 1], curr_char)
         THEN BacktrackLoop(dp, t - 1, DictGet(dp[t + 1], curr_char)[2],
                            Append(chars, curr_char))
         ELSE Append(chars, curr_char)

backtrack_from(dp, layer_idx, start_char) ==
    IF layer_idx < 0 \/ dp = <<>> THEN <<>>
    ELSE Reverse(BacktrackLoop(dp, layer_idx, start_char, <<>>))

\* get_topk_sequences falling back to the last non-empty layer
RECURSIVE get_topk_sequences_fallback(_, _)
get_topk_sequences_fallback(dp, k) ==
    IF dp = <<>> THEN <<>>
    ELSE LET last_layer == dp[Len(dp)]
         IN  IF last_layer = <<>>
             THEN get_topk_sequences_fallback(SubSeq(dp, 1, Len(dp) - 1), k)
             ELSE LET sorted_last == SortDescBy(last_layer, Scores(last_layer))
                      top_k_last == PySlice(sorted_last, k)
                  IN  [i \in 1..Len(top_k_last) |->
                         <<backtrack_from(dp, Len(dp) - 1, top_k_last[i][1]),
                           ScoreOf(top_k_last[i])>>]

\* get_topk_sequences taking the first k items of the last layer as stored
get_topk_sequences_unsorted(dp, k) ==
    IF dp = <<>> THEN <<>>
    ELSE LET last_layer == dp[Len(dp)]
         IN  IF last_layer = <<>> THEN <<>>
             ELSE LET top_k_last == PySlice(last_layer, k)
                  IN  [i \in 1..Len(top_k_last) |->
                         <<backtrack_from(dp, Len(dp) - 1, top_k_last[i][1]),
                           ScoreOf(top_k_last[i])>>]

\* get_topk_sequences slicing sorted_last[:k + 1]
get_topk_sequences_one_more(dp, k) ==
    IF dp = <<>> THEN <<>>
    ELSE LET last_layer == dp[Len(dp)]
         IN  IF last_layer = <<>> THEN <<>>
             ELSE LET sorted_last == SortDescBy(last_layer, Scores(last_layer))
                      top_k_last == PySlice(sorted_last, k + 1)
                  IN  [i \in 1..Len(top_k_last) |->
                         <<backtrack_from(dp, Len(dp) - 1, top_k_last[i][1]),
                           ScoreOf(top_k_last[i])>>]

\* the list of <<sequence, score>> get_topk_sequences(k) returns on layers dp
get_topk_sequences(dp, k) ==
    IF dp = <<>> THEN <<>>
    ELSE LET last_layer == dp[Len(dp)]
         IN  IF last_layer = <<>> THEN <<>>
             ELSE LET sorted_last == SortDescBy(last_layer, Scores(last_layer))
                      top_k_last == PySlice(sorted_last, k)
                  IN  [i \in 1..Len(top_k_last) |->
                         <<backtrack_from(dp, Len(dp) - 1, top_k_last[i][1]),
                           ScoreOf(top_k_last[i])>>]

\* _predict_with_pinyin, the loop over prev_layer for one curr_char:
\* best_score = max(best_score, score)
RECURSIVE PredictChar(_, _, _, _, _, _)
PredictChar(bonus, prev_layer, curr_char, pinyin, i, best_score) ==
    IF i > Len(prev_layer) THEN best_score
    ELSE LET prev_char == prev_layer[i][1]
             prev_score == ScoreOf(prev_layer[i])
             score == FAdd(FAdd(FAdd(prev_score,
                                     Float(get_trans(hmm, prev_char, curr_char))),
                                Float(get_emit(hmm, curr_char, pinyin))),
                           Float(BonusOf(bonus, prev_char, curr_char)))
         IN  PredictChar(bonus, prev_layer, curr_char, pinyin, i + 1,
                         IF FGe(best_score, score) THEN best_score ELSE score)

\* next_scores of _predict_with_pinyin: a dict char -> score
RECURSIVE NextScoresFrom(_, _, _, _, _, _)
NextScoresFrom(bonus, prev_layer, candidates, pinyin, i, next_scores) ==
    IF i > Len(candidates) THEN next_scores
    ELSE NextScoresFrom(bonus, prev_layer, candidates, pinyin, i + 1,
             DictPut(next_scores, candidates[i],
                     PredictChar(bonus, prev_layer, candidates[i], pinyin, 1, MINUS_INF)))

\* sorted(results, key=lambda x: x[1], reverse=True)[:5] of <<sequence, score>> pairs
Top5(results) ==
    PySlice(SortDescBy(results, [i \in 1..Len(results) |-> results[i][2]]), 5)

\* _predict_with_pinyin predicting nothing before the first token
predict_needs_session(bonus, dp, pinyin) ==
    LET candidates == CandidatesOf(candidates_map, pinyin)
    IN  IF candidates = <<>> \/ dp = <<>> THEN <<>>
        ELSE LET prev_layer == dp[Len(dp)]
             IN  IF prev_layer = <<>> THEN <<>>
                 ELSE LET next_scores ==
                              NextScoresFrom(bonus, prev_layer, candidates, pinyin, 1, <<>>)
                      IN  Top5([i \in 1..Len(next_scores) |->
                                  <<Append(backtrack_from(dp, Len(dp) - 1, None),
                                           next_scores[i][1]),
                                    next_scores[i][2]>>])

predict_with_pinyin(bonus, dp, pinyin) ==
    LET candidates == CandidatesOf(candidates_map, pinyin)
    IN  IF candidates = <<>> THEN <<>>
        ELSE IF dp = <<>>
        THEN Top5([i \in 1..Len(candidates) |->
                     <<<<candidates[i]>>,
                       FAdd(Float(get_init(hmm, candidates[i])),
                            Float(get_emit(hmm, candidates[i], pinyin)))>>])
        ELSE LET prev_layer == dp[Len(dp)]
             IN  IF prev_layer = <<>> THEN <<>>
                 ELSE LET next_scores ==
                              NextScoresFrom(bonus, prev_layer, candidates, pinyin, 1, <<>>)
                      IN  Top5([i \in 1..Len(next_scores) |->
                                  <<Append(backtrack_from(dp, Len(dp) - 1, None),
                                           next_scores[i][1]),
                                    next_scores[i][2]>>])

\* [py for py in candidates_map.keys() if py.startswith(prefix)]
MatchingPinyins(prefix) ==
    LET keys == [i \in 1..Len(candidates_map) |-> candidates_map[i][1]]
    IN  SelectSeq(keys, LAMBDA py : StartsWith(py, prefix))

\* all_candidates: the results of the first ten matching pinyin, one after another
RECURSIVE AllCandidatesFrom(_, _, _, _, _)
AllCandidatesFrom(bonus, dp, pinyins, i, all_candidates) ==
    IF i > Len(pinyins) THEN all_candidates
    ELSE AllCandidatesFrom(bonus, dp, pinyins, i + 1,
                           all_candidates \o predict_with_pinyin(bonus, dp, pinyins[i]))

\* unique_candidates keeping the score seen last
RECURSIVE UniqueFromLast(_, _, _)
UniqueFromLast(all_candidates, i, unique_candidates) ==
    IF i > Len(all_candidates) THEN unique_candidates
    ELSE UniqueFromLast(all_candidates, i + 1,
             DictPut(unique_candidates, all_candidates[i][1], all_candidates[i][2]))

\* unique_candidates: each sequence once, with its highest score
RECURSIVE UniqueFrom(_, _, _)
UniqueFrom(all_candidates, i, unique_candidates) ==
    IF i > Len(all_candidates) THEN unique_candidates
    ELSE LET seq == all_candidates[i][1]
             score == all_candidates[i][2]
         IN  UniqueFrom(all_candidates, i + 1,
                 IF ~DictHas(unique_candidates, seq)
                    \/ FGt(score, DictGet(unique_candidates, seq))
                 THEN DictPut(unique_candidates, seq, score)
                 ELSE unique_candidates)

\* add_pinyin_prefix looping over every matching pinyin
add_pinyin_prefix_all(bonus, dp, prefix) ==
    IF prefix = <<>> THEN get_topk_sequences(dp, 5)
    ELSE LET matching_pinyins == MatchingPinyins(prefix)
         IN  IF matching_pinyins = <<>> THEN get_topk_sequences(dp, 5)
             ELSE Top5(UniqueFrom(
                      AllCandidatesFrom(bonus, dp, matching_pinyins, 1, <<>>),
                      1, <<>>))

\* add_pinyin_prefix returning nothing for a prefix no key starts with
add_pinyin_prefix_nothing(bonus, dp, prefix) ==
    IF prefix = <<>> THEN get_topk_sequences(dp, 5)
    ELSE LET matching_pinyins == MatchingPinyins(prefix)
         IN  IF matching_pinyins = <<>> THEN <<>>
             ELSE Top5(UniqueFrom(
                      AllCandidatesFrom(bonus, dp, PySlice(matching_pinyins, 10), 1, <<>>),
                      1, <<>>))

\* what add_pinyin_prefix(prefix) returns on layers dp
add_pinyin_prefix_on(bonus, dp, prefix) ==
    IF prefix = <<>> THEN get_topk_sequences(dp, 5)
    ELSE LET matching_pinyins == MatchingPinyins(prefix)
         IN  IF matching_pinyins = <<>> THEN get_topk_sequences(dp, 5)
             ELSE Top5(UniqueFrom(
                      AllCandidatesFrom(bonus, dp, PySlice(matching_pinyins, 10), 1, <<>>),
                      1, <<>>))

Session(buffer, dp) == [buffer |-> buffer, dp |-> dp]

\* delete_last without dp_states.pop()
PopBufferOnly(buffer, dp) ==
    Session(SubSeq(buffer, 1, Len(buffer) - 1), dp)

\* pinyin_buffer.pop(0); dp_states.pop(0)
PopFirst(buffer, dp) ==
    Session(SubSeq(buffer, 2, Len(buffer)), SubSeq(dp, 2, Len(dp)))

\* pinyin_buffer.pop(); dp_states.pop()
PopBoth(buffer, dp) ==
    Session(SubSeq(buffer, 1, Len(buffer) - 1), SubSeq(dp, 1, Len(dp) - 1))

\* the session delete_last leaves
DeleteLastOn(buffer, dp) ==
    IF buffer # <<>> THEN PopBoth(buffer, dp) ELSE Session(buffer, dp)

\* add_pinyin that also culls every older layer to beam_size
AddPinyinCulling(bonus, buffer, dp, pinyin) ==
    IF pinyin = <<>> THEN Session(buffer, dp)
    ELSE Session(Append(buffer, pinyin),
                 Append([t \in 1..Len(dp) |-> Prune(dp[t])],
                        NewLayer(bonus, dp, Len(buffer), pinyin)))

\* add_pinyin returning before the append when the pinyin has no candidates
AddPinyinSkipping(bonus, buffer, dp, pinyin) ==
    IF pinyin = <<>> \/ CandidatesOf(candidates_map, pinyin) = <<>>
    THEN Session(buffer, dp)
    ELSE Session(Append(buffer, pinyin),
                 Append(dp, NewLayer(bonus, dp, Len(buffer), pinyin)))

\* add_pinyin without the return for an empty pinyin
AddPinyinUnguarded(bonus, buffer, dp, pinyin) ==
    Session(Append(buffer, pinyin),
            Append(dp, NewLayer(bonus, dp, Len(buffer), pinyin)))

\* the session add_pinyin(pinyin) leaves
AddPinyinOn(bonus, buffer, dp, pinyin) ==
    IF pinyin = <<>> THEN Session(buffer, dp)
    ELSE Session(Append(buffer, pinyin),
                 Append(dp, NewLayer(bonus, dp, Len(buffer), pinyin)))

\* reset that clears the buffer and keeps the layers
ClearBufferOnly(buffer, dp) == Session(<<>>, dp)

\* the session reset leaves: pinyin_buffer.clear(); dp_states.clear()
ResetOn(buffer, dp) == Session(<<>>, <<>>)

-----------------------------------------------------------------------------
(* The public operations of a session *)

add_pinyin(pinyin) ==
    /\ pinyin = <<>> \/ Len(pinyin_buffer) < MaxLen
    /\ LET after == AddPinyinOn(bigram_bonus, pinyin_buffer, dp_states, pinyin)
       IN  /\ pinyin_buffer' = after.buffer
           /\ dp_states' = after.dp
           /\ ret' = get_topk_sequences(after.dp, 5)
    /\ op' = <<"add_pinyin", pinyin>>
    /\ pre' = Session(pinyin_buffer, dp_states)
    /\ undo' = <<[pinyin |-> pinyin, buffer |-> pinyin_buffer, dp |-> dp_states]>>
    /\ UNCHANGED <<config_vars, batch_vars, call_vars, driver_vars>>

delete_last ==
    /\ LET after == DeleteLastOn(pinyin_buffer, dp_states)
       IN  /\ pinyin_buffer' = after.buffer
           /\ dp_states' = after.dp
           /\ ret' = IF after.dp # <<>> THEN get_topk_sequences(after.dp, 5) ELSE <<>>
    /\ op' = <<"delete_last", <<>>>>
    /\ pre' = Session(pinyin_buffer, dp_states)
    /\ undo' = IF op[1] = "add_pinyin" THEN undo ELSE <<>>
    /\ UNCHANGED <<config_vars, batch_vars, call_vars, driver_vars>>

reset ==
    /\ LET after == ResetOn(pinyin_buffer, dp_states)
       IN  /\ pinyin_buffer' = after.buffer
           /\ dp_states' = after.dp
    /\ ret' = <<>>
    /\ op' = <<"reset", <<>>>>
    /\ pre' = Session(pinyin_buffer, dp_states)
    /\ undo' = <<>>
    /\ UNCHANGED <<config_vars, batch_vars, call_vars, driver_vars>>

\* add_pinyin_prefix leaving the first matching pinyin committed
add_pinyin_prefix_committing(prefix) ==
    /\ ret' = add_pinyin_prefix_on(bigram_bonus, dp_states, prefix)
    /\ op' = <<"add_pinyin_prefix", prefix>>
    /\ pre' = Session(pinyin_buffer, dp_states)
    /\ undo' = <<>>
    /\ LET matching == MatchingPinyins(prefix)
           after == IF prefix # <<>> /\ matching # <<>> /\ Len(pinyin_buffer) < MaxLen
                    THEN AddPinyinOn(bigram_bonus, pinyin_buffer, dp_states, matching[1])
                    ELSE Session(pinyin_buffer, dp_states)
       IN  /\ pinyin_buffer' = after.buffer
           /\ dp_states' = after.dp
    /\ UNCHANGED <<config_vars, batch_vars, call_vars, driver_vars>>

add_pinyin_prefix(prefix) ==
    /\ ret' = add_pinyin_prefix_on(bigram_bonus, dp_states, prefix)
    /\ op' = <<"add_pinyin_prefix", prefix>>
    /\ pre' = Session(pinyin_buffer, dp_states)
    /\ undo' = <<>>
    /\ UNCHANGED <<pinyin_buffer, dp_states, config_vars, batch_vars, call_vars, driver_vars>>

topk(k) ==
    /\ ret' = get_topk_sequences(dp_states, k)
    /\ op' = <<"get_topk_sequences", k>>
    /\ pre' = Session(pinyin_buffer, dp_states)
    /\ undo' = <<>>
    /\ UNCHANGED <<pinyin_buffer, dp_states, config_vars, batch_vars, call_vars, driver_vars>>

\* IMEApp.top_k, and the five buttons _setup_ui creates
top_k == 5
ButtonCount == 5

\* IMEApp.__init__: nothing typed, nothing confirmed, the input widget
\* hidden, the buttons without text; where no driver runs, its fields stay so
IMEAppInit ==
    /\ ime_pinyin_buffer = <<>>
    /\ confirmed_text = <<>>
    /\ is_inputting = FALSE
    /\ candidate_buttons = [i \in 1..ButtonCount |-> <<>>]
    /\ last_key = <<"none">>

\* IncrementalViterbi.__init__, for any lexicon, store, beam size and bonus table
Init ==
    /\ \E lb \in SessionBeams : candidates_map = lb[1] /\ beam_size = lb[2]
    /\ \E hb \in SessionModels : hmm = hb[1] /\ bigram_bonus = hb[2]
    /\ pinyin_buffer = <<>>
    /\ dp_states = <<>>
    /\ op = <<"init", <<>>>>
    /\ ret = <<>>
    /\ pre = Session(<<>>, <<>>)
    /\ undo = <<>>
    /\ b_pc = "none"
    /\ b_seq = <<>>
    /\ b_k = 0
    /\ b_beam = NoInt
    /\ b_out = <<>>
    /\ f_pc = "none"
    /\ f_in = <<>>
    /\ f_out = <<>>
    /\ IMEAppInit

Next ==
    \/ \E pinyin \in PinyinInputs : add_pinyin(pinyin)
    \/ delete_last
    \/ reset
    \/ \E prefix \in Prefixes : add_pinyin_prefix(prefix)
    \/ \E k \in Ks : topk(k)

Spec == Init /\ [][Next]_vars

-----------------------------------------------------------------------------
(* The batch decoder *)

\* the loop of viterbi_decode without the bonus
RECURSIVE DecodeCharNoBonus(_, _, _, _, _, _)
DecodeCharNoBonus(bonus, prev_layer, ch, py, i, best) ==
    IF i > Len(prev_layer) THEN best
    ELSE LET prev_ch == prev_layer[i][1]
             prev_score == ScoreOf(prev_layer[i])
             s == FAdd(FAdd(prev_score, Float(get_trans(hmm, prev_ch, ch))),
                       Float(get_emit(hmm, ch, py)))
         IN  DecodeCharNoBonus(bonus, prev_layer, ch, py, i + 1,
                               IF FGt(s, best[1]) THEN <<s, prev_ch>> ELSE best)

\* viterbi_decode, the loop over prev_layer for one ch: best is
\* <<best_score, best_prev>>, replaced only by a strictly higher score
RECURSIVE DecodeChar(_, _, _, _, _, _)
DecodeChar(bonus, prev_layer, ch, py, i, best) ==
    IF i > Len(prev_layer) THEN best
    ELSE LET prev_ch == prev_layer[i][1]
             prev_score == ScoreOf(prev_layer[i])
             s == FAdd(FAdd(FAdd(prev_score, Float(get_trans(hmm, prev_ch, ch))),
                            Float(get_emit(hmm, ch, py))),
                       Float(BonusOf(bonus, prev_ch, ch)))
         IN  DecodeChar(bonus, prev_layer, ch, py, i + 1,
                        IF FGt(s, best[1]) THEN <<s, prev_ch>> ELSE best)

RECURSIVE DecodeLayerFrom(_, _, _, _, _, _)
DecodeLayerFrom(bonus, prev_layer, cands, py, i, layer) ==
    IF i > Len(cands) THEN layer
    ELSE DecodeLayerFrom(bonus, prev_layer, cands, py, i + 1,
             DictPut(layer, cands[i],
                     DecodeChar(bonus, prev_layer, cands[i], py, 1, <<MINUS_INF, None>>)))

\* viterbi_decode's dp with a layer after an empty one built from init + emit
RECURSIVE DecodeLayersRestarting(_, _, _)
DecodeLayersRestarting(bonus, pinyin_seq, t) ==
    IF t = 1
    THEN <<InitLayerFrom(CandidatesOf(candidates_map, pinyin_seq[1]), pinyin_seq[1], 1, <<>>)>>
    ELSE LET dp == DecodeLayersRestarting(bonus, pinyin_seq, t - 1)
             py == pinyin_seq[t]
             cands == CandidatesOf(candidates_map, py)
         IN  IF cands = <<>> THEN Append(dp, <<>>)
             ELSE IF dp[Len(dp)] = <<>>
             THEN Append(dp, InitLayerFrom(cands, py, 1, <<>>))
             ELSE Append(dp, DecodeLayerFrom(bonus, dp[Len(dp)], cands, py, 1, <<>>))

\* viterbi_decode's dp after the layers of pinyin_seq[0..t-1] (t >= 1)
RECURSIVE DecodeLayers(_, _, _)
DecodeLayers(bonus, pinyin_seq, t) ==
    IF t = 1
    THEN <<InitLayerFrom(CandidatesOf(candidates_map, pinyin_seq[1]), pinyin_seq[1], 1, <<>>)>>
    ELSE LET dp == DecodeLayers(bonus, pinyin_seq, t - 1)
             py == pinyin_seq[t]
             cands == CandidatesOf(candidates_map, py)
         IN  IF cands = <<>> THEN Append(dp, <<>>)
             ELSE Append(dp, DecodeLayerFrom(bonus, dp[Len(dp)], cands, py, 1, <<>>))

\* the back-trace of viterbi_decode: layers dp[:-1] from the last to the first
RECURSIVE DecodeTrace(_, _, _, _)
DecodeTrace(dp, t, prev, chars) ==
    IF t < 1 \/ prev = None THEN chars
    ELSE DecodeTrace(dp, t - 1, DictGet(dp[t], prev)[2], Append(chars, prev))

viterbi_decode(bonus, pinyin_seq) ==
    IF pinyin_seq = <<>> THEN <<>>
    ELSE LET dp == DecodeLayers(bonus, pinyin_seq, Len(pinyin_seq))
             last_layer == dp[Len(dp)]
         IN  IF last_layer = <<>> THEN <<>>
             ELSE LET best_last == last_layer[ArgMaxFirst(Scores(last_layer))]
                  IN  Reverse(DecodeTrace(dp, Len(dp) - 1, BackOf(best_last),
                                          <<best_last[1]>>))

\* a path of the beam is <<score, seq_chars, last_char>>
BeamScores(beam) == [i \in 1..Len(beam) |-> beam[i][1]]

\* new_beam scored without the transition
ExtendBeamNoTrans(bonus, beam, cands, py) ==
    [n \in 1..(Len(beam) * Len(cands)) |->
        LET path == beam[((n - 1) \div Len(cands)) + 1]
            ch == cands[((n - 1) % Len(cands)) + 1]
            new_score == FAdd(FAdd(path[1], Float(get_emit(hmm, ch, py))),
                              Float(BonusOf(bonus, path[3], ch)))
        IN  <<new_score, Append(path[2], ch), ch>>]

\* new_beam scored without the bonus
ExtendBeamNoBonus(bonus, beam, cands, py) ==
    [n \in 1..(Len(beam) * Len(cands)) |->
        LET path == beam[((n - 1) \div Len(cands)) + 1]
            ch == cands[((n - 1) % Len(cands)) + 1]
            new_score == FAdd(FAdd(path[1], Float(get_trans(hmm, path[3], ch))),
                              Float(get_emit(hmm, ch, py)))
        IN  <<new_score, Append(path[2], ch), ch>>]

\* new_beam: every path of the beam extended by every candidate
ExtendBeam(bonus, beam, cands, py) ==
    [n \in 1..(Len(beam) * Len(cands)) |->
        LET path == beam[((n - 1) \div Len(cands)) + 1]
            ch == cands[((n - 1) % Len(cands)) + 1]
            new_score == FAdd(FAdd(FAdd(path[1],
                                        Float(get_trans(hmm, path[3], ch))),
                                   Float(get_emit(hmm, ch, py))),
                              Float(BonusOf(bonus, path[3], ch)))
        IN  <<new_score, Append(path[2], ch), ch>>]

\* viterbi_topk's loop leaving at a token without candidates
RECURSIVE TopkLoopBreak(_, _, _, _, _)
TopkLoopBreak(bonus, pinyin_seq, i, beam, beam_sz) ==
    IF i > Len(pinyin_seq) THEN beam
    ELSE LET cands == CandidatesOf(candidates_map, pinyin_seq[i])
         IN  IF cands = <<>> THEN beam
             ELSE LET new_beam == ExtendBeam(bonus, beam, cands, pinyin_seq[i])
                  IN  IF new_beam = <<>> THEN beam
                      ELSE TopkLoopBreak(bonus, pinyin_seq, i + 1,
                               PySlice(SortDescBy(new_beam, BeamScores(new_beam)), beam_sz),
                               beam_sz)

\* viterbi_topk's loop sorting new_beam without cutting it to beam_size
RECURSIVE TopkLoopUncut(_, _, _, _, _)
TopkLoopUncut(bonus, pinyin_seq, i, beam, beam_sz) ==
    IF i > Len(pinyin_seq) THEN beam
    ELSE LET cands == CandidatesOf(candidates_map, pinyin_seq[i])
         IN  IF cands = <<>> THEN TopkLoopUncut(bonus, pinyin_seq, i + 1, beam, beam_sz)
             ELSE LET new_beam == ExtendBeam(bonus, beam, cands, pinyin_seq[i])
                  IN  IF new_beam = <<>> THEN beam
                      ELSE TopkLoopUncut(bonus, pinyin_seq, i + 1,
                               SortDescBy(new_beam, BeamScores(new_beam)), beam_sz)

\* viterbi_topk's loop over pinyin_seq[1:], from index i (1-based) on
RECURSIVE TopkLoop(_, _, _, _, _)
TopkLoop(bonus, pinyin_seq, i, beam, beam_sz) ==
    IF i > Len(pinyin_seq) THEN beam
    ELSE LET cands == CandidatesOf(candidates_map, pinyin_seq[i])
         IN  IF cands = <<>> THEN TopkLoop(bonus, pinyin_seq, i + 1, beam, beam_sz)
             ELSE LET new_beam == ExtendBeam(bonus, beam, cands, pinyin_seq[i])
                  IN  IF new_beam = <<>> THEN beam
                      ELSE TopkLoop(bonus, pinyin_seq, i + 1,
                               PySlice(SortDescBy(new_beam, BeamScores(new_beam)), beam_sz),
                               beam_sz)

\* the beam of the first token, sorted and cut to beam_size
FirstBeam(first_py, beam_sz) ==
    LET first_cands == CandidatesOf(candidates_map, first_py)
        beam == [i \in 1..Len(first_cands) |->
                    <<FAdd(Float(get_init(hmm, first_cands[i])),
                           Float(get_emit(hmm, first_cands[i], first_py))),
                      <<first_cands[i]>>, first_cands[i]>>]
    IN  PySlice(SortDescBy(beam, BeamScores(beam)), beam_sz)

\* viterbi_topk starting at the first token that has candidates
viterbi_topk_from_known(bonus, pinyin_seq, k, opt_beam_size) ==
    LET known == SelectSeq(pinyin_seq,
                           LAMBDA py : CandidatesOf(candidates_map, py) # <<>>)
    IN  IF known = <<>> THEN <<>>
        ELSE LET beam_sz == IF opt_beam_size = NoInt THEN k ELSE opt_beam_size[1]
                 beam == TopkLoop(bonus, known, 2, FirstBeam(known[1], beam_sz), beam_sz)
                 results == [i \in 1..Len(beam) |-> <<beam[i][2], beam[i][1]>>]
             IN  PySlice(SortDescBy(results, BeamScores(beam)), k)

\* the list of <<string, score>> viterbi_topk returns
viterbi_topk(bonus, pinyin_seq, k, opt_beam_size) ==
    IF pinyin_seq = <<>> THEN <<>>
    ELSE LET beam_sz == IF opt_beam_size = NoInt THEN k ELSE opt_beam_size[1]
             beam == TopkLoop(bonus, pinyin_seq, 2, FirstBeam(pinyin_seq[1], beam_sz),
                              beam_sz)
             results == [i \in 1..Len(beam) |-> <<beam[i][2], beam[i][1]>>]
         IN  PySlice(SortDescBy(results, BeamScores(beam)), k)

\* the pinyin sequences of at most n tokens
SeqsUpTo(n) == UNION {[1..m -> Pinyins] : m \in 0..n}

\* the inputs of a batch call: a lexicon, a store with a bonus table, a
\* sequence, k and beam_size
CallInputs(models, beams) ==
    /\ candidates_map \in Lexicons
    /\ \E hb \in models : hmm = hb[1] /\ bigram_bonus = hb[2]
    /\ beam_size = 100
    /\ pinyin_buffer = <<>>
    /\ dp_states = <<>>
    /\ op = <<"init", <<>>>>
    /\ ret = <<>>
    /\ pre = Session(<<>>, <<>>)
    /\ undo = <<>>
    /\ b_pc = "input"
    /\ b_seq \in SeqsUpTo(MaxSeqLen)
    /\ b_k \in Ks
    /\ b_beam \in beams
    /\ b_out = <<>>
    /\ f_pc = "none"
    /\ f_in = <<>>
    /\ f_out = <<>>
    /\ IMEAppInit

InitBatch == CallInputs(BatchModels, BatchBeams)

call_viterbi_decode ==
    /\ b_pc = "input"
    /\ b_pc' = "viterbi_decode"
    /\ b_out' = viterbi_decode(bigram_bonus, b_seq)
    /\ UNCHANGED <<config_vars, session_vars, b_seq, b_k, b_beam, call_vars, driver_vars>>

call_viterbi_topk ==
    /\ b_pc = "input"
    /\ b_pc' = "viterbi_topk"
    /\ b_out' = viterbi_topk(bigram_bonus, b_seq, b_k, b_beam)
    /\ UNCHANGED <<config_vars, session_vars, b_seq, b_k, b_beam, call_vars, driver_vars>>

NextBatch ==
    \/ call_viterbi_decode
    \/ call_viterbi_topk

SpecBatch == InitBatch /\ [][NextBatch]_vars

\* the batch calls run beside the sessions: on the sessions' stores and
\* bonus tables, beam_size left out or given
InitCalls == CallInputs(SessionModels, {NoInt, SomeInt(4)})

InitBoth == Init \/ InitCalls

\* a step of a session, or a batch call on inputs that await one
SessionStep == b_pc = "none" /\ Next

NextBoth ==
    \/ SessionStep
    \/ NextBatch

SpecBoth == InitBoth /\ [][NextBoth]_vars

-----------------------------------------------------------------------------
(* Properties of a session *)

LastLayer(dp) == dp[Len(dp)]

\* the index of the last empty layer of dp, 0 when no layer is empty
LastEmptyIndex(dp) ==
    IF \E t \in 1..Len(dp) : dp[t] = <<>>
    THEN CHOOSE t \in 1..Len(dp) :
             dp[t] = <<>> /\ \A u \in (t + 1)..Len(dp) : dp[u] # <<>>
    ELSE 0

\* the index of the last non-empty layer of dp, 0 when there is none
LastNonEmptyIndex(dp) ==
    IF \E t \in 1..Len(dp) : dp[t] # <<>>
    THEN CHOOSE t \in 1..Len(dp) :
             dp[t] # <<>> /\ \A u \in (t + 1)..Len(dp) : dp[u] = <<>>
    ELSE 0

\* C1: after every public operation the number of committed tokens in
\* pinyin_buffer equals the number of trellis layers in dp_states.
C1_BufferLengthIsLayerCount == Len(pinyin_buffer) = Len(dp_states)

C1_Witness ==
    /\ op[1] = "delete_last"
    /\ Len(pre.buffer) = MaxLen
    /\ Len(pinyin_buffer) = MaxLen - 1
    /\ Len(dp_states) = MaxLen - 1

\* C2: delete_last right after add_pinyin(P), P a pinyin, leaves the token
\* buffer that add_pinyin found and returns the top-5 list of the session
\* as add_pinyin found it (the empty list when that session was empty).
C2_BackspaceUndoesAppend ==
    (op[1] = "delete_last" /\ undo # <<>> /\ undo[1].pinyin # <<>>) =>
        /\ pinyin_buffer = undo[1].buffer
        /\ ret = get_topk_sequences(undo[1].dp, 5)
        /\ undo[1].buffer = <<>> => ret = <<>>

C2_Witness ==
    /\ op[1] = "delete_last"
    /\ undo # <<>>
    /\ undo[1].pinyin = hao
    /\ undo[1].buffer = <<ni>>
    /\ pinyin_buffer = <<ni>>
    /\ Len(ret) = 2

\* C5 as stated: when the last layer is non-empty, every string
\* get_topk_sequences(k) returns has as many characters as the buffer has tokens.
C5_Original ==
    (op[1] = "get_topk_sequences" /\ dp_states # <<>> /\ LastLayer(dp_states) # <<>>) =>
        \A i \in 1..Len(ret) : Len(ret[i][1]) = Len(pinyin_buffer)

\* C5 amended: when the last layer is non-empty, every string
\* get_topk_sequences(k) returns has one character per token committed after
\* the last token without candidates, which is one per token of the buffer
\* when every token has candidates.
C5_TraceReachesLastRestart ==
    (op[1] = "get_topk_sequences" /\ dp_states # <<>> /\ LastLayer(dp_states) # <<>>) =>
        \A i \in 1..Len(ret) :
            /\ Len(ret[i][1]) = Len(pinyin_buffer) - LastEmptyIndex(dp_states)
            /\ (\A t \in 1..Len(pinyin_buffer) :
                    CandidatesOf(candidates_map, pinyin_buffer[t]) # <<>>)
                 => Len(ret[i][1]) = Len(pinyin_buffer)

C5_Witness ==
    /\ op[1] = "get_topk_sequences"
    /\ Len(pinyin_buffer) = 3
    /\ dp_states[1] = <<>>
    /\ dp_states[2] # <<>>
    /\ dp_states[3] # <<>>
    /\ Len(ret) = 2
    /\ Len(ret[1][1]) = 2

\* C6: with n >= 1 committed tokens and a non-empty last layer, every string
\* add_pinyin_prefix returns for a prefix matching some syllable has n + 1
\* characters: the back-trace of the best predecessor and the new character.
C6_PrefixStringsAreFull ==
    (/\ op[1] = "add_pinyin_prefix"
     /\ op[2] # <<>>
     /\ MatchingPinyins(op[2]) # <<>>
     /\ dp_states # <<>>
     /\ LastLayer(dp_states) # <<>>) =>
        \A i \in 1..Len(ret) : Len(ret[i][1]) = Len(pinyin_buffer) + 1

\* C9: add_pinyin(P) for a P without candidates pushes an empty layer and
\* returns the top-5 of the last non-empty layer of the session if there is
\* one, the empty list otherwise.
C9_DeadEndReturnsEarlierTopk ==
    (/\ op[1] = "add_pinyin"
     /\ op[2] # <<>>
     /\ CandidatesOf(candidates_map, op[2]) = <<>>) =>
        /\ dp_states = Append(pre.dp, <<>>)
        /\ ret = get_topk_sequences(SubSeq(pre.dp, 1, LastNonEmptyIndex(pre.dp)), 5)

\* C10: when the last layer is empty, get_topk_sequences(k) returns the
\* empty list for every k, whatever the earlier layers hold.
C10_EmptyLastLayerGivesNothing ==
    (op[1] = "get_topk_sequences" /\ dp_states # <<>> /\ LastLayer(dp_states) = <<>>) =>
        ret = <<>>

C10_Witness ==
    /\ op[1] = "get_topk_sequences"
    /\ op[2] >= 1
    /\ Len(dp_states) = 2
    /\ dp_states[1] # <<>>
    /\ dp_states[2] = <<>>
    /\ ret = <<>>

-----------------------------------------------------------------------------
(* Properties of the batch decoder *)

Range(f) == {f[i] : i \in DOMAIN f}

HasCandidates(py) == CandidatesOf(candidates_map, py) # <<>>
AllHaveCandidates(pinyin_seq) ==
    \A t \in 1..Len(pinyin_seq) : HasCandidates(pinyin_seq[t])

\* the strings with one candidate of each token
CandidateStrings(pinyin_seq) ==
    {str \in [1..Len(pinyin_seq) -> UNION {Range(candidates_map[i][2]) :
                                             i \in 1..Len(candidates_map)}] :
        \A t \in 1..Len(pinyin_seq) :
            str[t] \in Range(CandidatesOf(candidates_map, pinyin_seq[t]))}

\* the bonus table's value for a pair, 0 where it defines none
BonusValue(a, b) ==
    IF bigram_bonus.given /\ <<a, b>> \in DOMAIN bigram_bonus.table
    THEN bigram_bonus.table[<<a, b>>] ELSE 0

\* init(C_0) + emit(C_0, P_0) + sum over t >= 1 of
\* trans(C_{t-1}, C_t) + bonus(C_{t-1} C_t) + emit(C_t, P_t), up to token t
RECURSIVE PathScore(_, _, _)
PathScore(pinyin_seq, str, t) ==
    IF t = 1
    THEN FAdd(Float(get_init(hmm, str[1])), Float(get_emit(hmm, str[1], pinyin_seq[1])))
    ELSE FAdd(PathScore(pinyin_seq, str, t - 1),
              FAdd(Float(get_trans(hmm, str[t - 1], str[t])),
                   FAdd(Float(BonusValue(str[t - 1], str[t])),
                        Float(get_emit(hmm, str[t], pinyin_seq[t])))))

TotalScore(pinyin_seq, str) == PathScore(pinyin_seq, str, Len(pinyin_seq))

\* beam_size as viterbi_topk uses it
EffectiveBeam == IF b_beam = NoInt THEN b_k ELSE b_beam[1]

\* the largest number of candidates of a token
MaxBranching(pinyin_seq) ==
    CHOOSE n \in 0..Cardinality(UNION {Range(candidates_map[i][2]) :
                                          i \in 1..Len(candidates_map)}) :
        /\ \A t \in 1..Len(pinyin_seq) :
               Len(CandidatesOf(candidates_map, pinyin_seq[t])) <= n
        /\ \E t \in 1..Len(pinyin_seq) :
               Len(CandidatesOf(candidates_map, pinyin_seq[t])) = n

\* the number of partial paths over the tokens before the last
RECURSIVE PathsBefore(_, _)
PathsBefore(pinyin_seq, t) ==
    IF t <= 1 THEN 1
    ELSE PathsBefore(pinyin_seq, t - 1)
         * Len(CandidatesOf(candidates_map, pinyin_seq[t - 1]))

\* one candidate string scores strictly higher than every other
UniqueBest(pinyin_seq) ==
    \E str \in CandidateStrings(pinyin_seq) :
        \A other \in CandidateStrings(pinyin_seq) \ {str} :
            FGt(TotalScore(pinyin_seq, str), TotalScore(pinyin_seq, other))

\* C3: for a non-empty sequence whose tokens all have candidates
\* viterbi_decode returns one candidate per token, and no candidate string
\* has a higher total score; for the empty sequence it returns the empty string.
C3_DecodeBestIsOptimal ==
    b_pc = "viterbi_decode" =>
        /\ b_seq = <<>> => b_out = <<>>
        /\ (b_seq # <<>> /\ AllHaveCandidates(b_seq)) =>
              /\ b_out \in CandidateStrings(b_seq)
              /\ \A str \in CandidateStrings(b_seq) :
                     FGe(TotalScore(b_seq, b_out), TotalScore(b_seq, str))

C3_Witness ==
    /\ b_pc = "viterbi_decode"
    /\ b_seq = <<ni, hao, ni>>
    /\ hmm = HmmDetour
    /\ bigram_bonus = BonusYouNum
    /\ b_out = <<"You", "Num", "You">>
    /\ \E str \in CandidateStrings(b_seq) :
           FGt(TotalScore(b_seq, b_out), TotalScore(b_seq, str))

\* C4 as stated: for a non-empty sequence whose tokens all have candidates
\* and k >= 1, the first string of viterbi_topk is viterbi_decode's string
\* whenever beam_size is at least the largest number of candidates of a token.
C4_Original ==
    (/\ b_pc = "viterbi_topk"
     /\ b_seq # <<>>
     /\ AllHaveCandidates(b_seq)
     /\ b_k >= 1
     /\ EffectiveBeam >= MaxBranching(b_seq)) =>
        /\ b_out # <<>>
        /\ b_out[1][1] = viterbi_decode(bigram_bonus, b_seq)

\* C4 amended: for a non-empty sequence whose tokens all have candidates
\* and k >= 1, when beam_size is at least the number of partial paths over
\* the tokens before the last (so that no step cuts the beam before the last),
\* the first pair of viterbi_topk has the total score of viterbi_decode's
\* string, and is that string when one candidate string scores strictly
\* highest.
C4_AgreeWithoutPruningAndTies ==
    (/\ b_pc = "viterbi_topk"
     /\ b_seq # <<>>
     /\ AllHaveCandidates(b_seq)
     /\ b_k >= 1
     /\ EffectiveBeam >= 1
     /\ EffectiveBeam >= PathsBefore(b_seq, Len(b_seq))) =>
        /\ b_out # <<>>
        /\ b_out[1][2] = TotalScore(b_seq, viterbi_decode(bigram_bonus, b_seq))
        /\ UniqueBest(b_seq) => b_out[1][1] = viterbi_decode(bigram_bonus, b_seq)

C4_Witness ==
    /\ b_pc = "viterbi_topk"
    /\ b_seq = <<ni, hao, ni>>
    /\ hmm = HmmDetour
    /\ candidates_map = LexiconToy
    /\ b_beam = SomeInt(4)
    /\ b_k = 1
    /\ UniqueBest(b_seq)
    /\ b_out = << <<viterbi_decode(bigram_bonus, b_seq),
                    TotalScore(b_seq, viterbi_decode(bigram_bonus, b_seq))>> >>

\* C7: when the token at index i has no candidates and every later token
\* has, viterbi_decode returns one character for each token after index i.
C7_SuffixAfterEmptyLayer ==
    b_pc = "viterbi_decode" =>
        \A i \in 1..Len(b_seq) :
            (/\ ~HasCandidates(b_seq[i])
             /\ \A j \in (i + 1)..Len(b_seq) : HasCandidates(b_seq[j])) =>
                /\ Len(b_out) = Len(b_seq) - i
                /\ \A j \in (i + 1)..Len(b_seq) :
                       b_out[j - i] \in Range(CandidatesOf(candidates_map, b_seq[j]))

\* the tokens of pinyin_seq that have candidates, in order
WithCandidates(pinyin_seq) == SelectSeq(pinyin_seq, HasCandidates)

\* the index of the first token without candidates, 0 when all have
FirstWithout(pinyin_seq) ==
    IF AllHaveCandidates(pinyin_seq) THEN 0
    ELSE CHOOSE i \in 1..Len(pinyin_seq) :
             /\ ~HasCandidates(pinyin_seq[i])
             /\ \A j \in 1..(i - 1) : HasCandidates(pinyin_seq[j])

\* C8 as stated: at a token without candidates viterbi_topk stops: it
\* returns the best k paths of the beam as it stood before that token, and
\* no later token adds a character to a returned string.
C8_Original ==
    (/\ b_pc = "viterbi_topk"
     /\ b_k >= 1
     /\ EffectiveBeam >= 1
     /\ FirstWithout(b_seq) >= 2) =>
        /\ b_out = viterbi_topk(bigram_bonus, SubSeq(b_seq, 1, FirstWithout(b_seq) - 1),
                                b_k, b_beam)
        /\ \A i \in 1..Len(b_out) : Len(b_out[i][1]) = FirstWithout(b_seq) - 1

\* C8 amended: viterbi_topk skips a token without candidates that follows
\* the first token and goes on with the later tokens: when the first token
\* has candidates, every returned string has one character for each token
\* that has candidates, a candidate of that token, and with k >= 1 and
\* beam_size >= 1 at least one string is returned.
C8_SkipsTokensWithoutCandidates ==
    (b_pc = "viterbi_topk" /\ b_seq # <<>> /\ HasCandidates(b_seq[1])) =>
        /\ \A i \in 1..Len(b_out) :
               b_out[i][1] \in CandidateStrings(WithCandidates(b_seq))
        /\ (b_k >= 1 /\ EffectiveBeam >= 1) => b_out # <<>>

C8_Witness ==
    /\ b_pc = "viterbi_topk"
    /\ b_seq = <<ni, xx, hao>>
    /\ hmm = HmmToy
    /\ b_k = 2
    /\ b_beam = NoInt
    /\ Len(b_out) = 2
    /\ b_out[1][1] = <<"You", "Hao">>

-----------------------------------------------------------------------------
(* Further properties of a session *)

Queries == {"add_pinyin_prefix", "get_topk_sequences"}

\* C11: add_pinyin_prefix and get_topk_sequences are observational: for
\* every session state and every argument the call leaves pinyin_buffer and
\* every layer of dp_states as they were, and modifies neither the lexicon
\* nor the parameter store (nor the beam size and the bonus table).
C11_QueriesChangeNothing ==
    [][op'[1] \in Queries =>
          /\ pinyin_buffer' = pinyin_buffer
          /\ dp_states' = dp_states
          /\ candidates_map' = candidates_map
          /\ hmm' = hmm
          /\ beam_size' = beam_size
          /\ bigram_bonus' = bigram_bonus]_vars

C11_Witness ==
    /\ op[1] = "add_pinyin_prefix"
    /\ op[2] = <<"h">>
    /\ Len(ret) >= 2
    /\ Len(pinyin_buffer) = 2
    /\ dp_states[2] # <<>>
    /\ pre = Session(pinyin_buffer, dp_states)

\* C12: reset leaves the session empty (no tokens, no layers) from any
\* reachable state, and a second reset leaves what the first one left.
C12_ResetEmptiesAndIsIdempotent ==
    op[1] = "reset" =>
        /\ pinyin_buffer = <<>>
        /\ dp_states = <<>>
        /\ ResetOn(pinyin_buffer, dp_states) = Session(pinyin_buffer, dp_states)

C12_Witness ==
    /\ op[1] = "reset"
    /\ Len(pre.buffer) = MaxLen
    /\ pre.dp[MaxLen] # <<>>
    /\ pinyin_buffer = <<>>
    /\ dp_states = <<>>

\* the scores of a list of <<string, score>> pairs never go up
NonIncreasing(pairs) ==
    \A i \in 1..(Len(pairs) - 1) : FGe(pairs[i][2], pairs[i + 1][2])

\* C14: in every reachable session state and for every k the scores of the
\* list get_topk_sequences(k) returns never go up from first to last.
C14_TopkScoresNonIncreasing ==
    op[1] = "get_topk_sequences" => NonIncreasing(ret)

C14_Witness ==
    /\ op[1] = "get_topk_sequences"
    /\ op[2] = 2
    /\ candidates_map = LexiconWide
    /\ Len(ret) = 2
    /\ FGt(ret[1][2], ret[2][2])
    /\ dp_states[Len(dp_states)][1][1] # ret[1][1][Len(ret[1][1])]

\* C16: add_pinyin(P), P a pinyin with or without candidates, pushes P onto
\* the buffer and appends exactly one layer to the layers it found: an
\* empty session gets one token, a session of n tokens gets n + 1.
C16_AppendAddsOneTokenOneLayer ==
    (op[1] = "add_pinyin" /\ op[2] # <<>>) =>
        /\ pinyin_buffer = Append(pre.buffer, op[2])
        /\ Len(dp_states) = Len(pre.dp) + 1
        /\ SubSeq(dp_states, 1, Len(pre.dp)) = pre.dp
        /\ Len(pinyin_buffer) = Len(pre.buffer) + 1

C16_Witness ==
    /\ op[1] = "add_pinyin"
    /\ op[2] = xx
    /\ Len(pre.buffer) = MaxLen - 1
    /\ Len(pinyin_buffer) = MaxLen
    /\ dp_states[MaxLen] = <<>>

\* the prefix of the last add_pinyin_prefix matches a key of the lexicon
PrefixMatches ==
    op[1] = "add_pinyin_prefix" /\ op[2] # <<>> /\ MatchingPinyins(op[2]) # <<>>

\* what the simulated syllables of a prefix give, one after another
Simulated(dp, prefix) ==
    AllCandidatesFrom(bigram_bonus, dp, PySlice(MatchingPinyins(prefix), 10), 1, <<>>)

\* C17: the list add_pinyin_prefix returns for a prefix matching some
\* syllable holds each string at most once, with the highest score the
\* string got over the simulated syllables, in non-increasing order of
\* score, and has at most 5 entries.
C17_PrefixListIsMergedSortedCapped ==
    PrefixMatches =>
        LET all == Simulated(dp_states, op[2])
        IN  /\ Len(ret) <= 5
            /\ \A i, j \in 1..Len(ret) : i # j => ret[i][1] # ret[j][1]
            /\ NonIncreasing(ret)
            /\ \A i \in 1..Len(ret) :
                   /\ \E j \in 1..Len(all) : all[j] = ret[i]
                   /\ \A j \in 1..Len(all) :
                          all[j][1] = ret[i][1] => FGe(ret[i][2], all[j][2])

\* a string met under two syllables with different scores, and a cut to 5
C17_Witness ==
    /\ PrefixMatches
    /\ dp_states # <<>>
    /\ \/ /\ candidates_map = LexiconWide
          /\ hmm = HmmToy
          /\ Len(ret) = 3
          /\ FGt(ret[1][2], ret[3][2])
          /\ \E i \in 1..Len(ret) : \E j \in 1..Len(Simulated(dp_states, op[2])) :
                 /\ Simulated(dp_states, op[2])[j][1] = ret[i][1]
                 /\ FGt(ret[i][2], Simulated(dp_states, op[2])[j][2])
       \/ /\ candidates_map = LexiconMany
          /\ Len(Simulated(dp_states, op[2])) = 14
          /\ Len(ret) = 5

\* C18 as stated: on an empty session get_topk_sequences and
\* add_pinyin_prefix return the empty list.
C18_Original ==
    (pre = Session(<<>>, <<>>) /\ op[1] \in Queries) => ret = <<>>

\* the first ten syllables matching a prefix
Syllables(prefix) == PySlice(MatchingPinyins(prefix), 10)

\* C18 amended: on an empty session reset, delete_last, get_topk_sequences
\* and add_pinyin_prefix all return and leave the session empty;
\* get_topk_sequences returns the empty list for every k; add_pinyin_prefix
\* returns the empty list for the empty prefix and for a prefix none of
\* whose syllables has candidates, and otherwise a non-empty list of
\* one-character strings, each a candidate of a matching syllable with the
\* score init + emit under that syllable.
C18_EmptySessionIsSafe ==
    (/\ pre = Session(<<>>, <<>>)
     /\ op[1] \in Queries \cup {"reset", "delete_last"}) =>
        /\ pinyin_buffer = <<>>
        /\ dp_states = <<>>
        /\ op[1] = "get_topk_sequences" => ret = <<>>
        /\ op[1] = "add_pinyin_prefix" =>
              IF \A s \in 1..Len(Syllables(op[2])) :
                     op[2] = <<>> \/ CandidatesOf(candidates_map, Syllables(op[2])[s]) = <<>>
              THEN ret = <<>>
              ELSE /\ ret # <<>>
                   /\ \A i \in 1..Len(ret) :
                          /\ Len(ret[i][1]) = 1
                          /\ \E s \in 1..Len(Syllables(op[2])) :
                                 LET py == Syllables(op[2])[s]
                                     cands == CandidatesOf(candidates_map, py)
                                 IN  \E c \in 1..Len(cands) :
                                        /\ ret[i][1] = <<cands[c]>>
                                        /\ ret[i][2] = FAdd(Float(get_init(hmm, cands[c])),
                                                            Float(get_emit(hmm, cands[c], py)))

C18_Witness ==
    /\ pre = Session(<<>>, <<>>)
    /\ op[1] = "add_pinyin_prefix"
    /\ op[2] = <<"h">>
    /\ candidates_map = LexiconToy
    /\ hmm = HmmToy
    /\ Len(ret) = 3
    /\ ret[1] = << <<"Hao">>, Float(-3) >>
    /\ pinyin_buffer = <<>>
    /\ dp_states = <<>>

-----------------------------------------------------------------------------
(* Further properties of the batch decoder, and of both decoders *)

\* the beam of the last viterbi_topk call after the first n tokens
BeamAfter(n) ==
    TopkLoop(bigram_bonus, SubSeq(b_seq, 1, n), 2,
             FirstBeam(b_seq[1], EffectiveBeam), EffectiveBeam)

\* C15: viterbi_topk with k >= 1 keeps at most beam_size partial paths
\* after every step (beam_size being k when it is not given), and returns at
\* most k <<string, score>> pairs whose scores never go up.
C15_BeamAndResultBounded ==
    (b_pc = "viterbi_topk" /\ b_k >= 1) =>
        /\ \A n \in 1..Len(b_seq) : Len(BeamAfter(n)) <= EffectiveBeam
        /\ Len(b_out) <= b_k
        /\ NonIncreasing(b_out)

\* the beam is cut to two paths out of four, the result to one out of two
C15_Witness ==
    /\ b_pc = "viterbi_topk"
    /\ b_k = 1
    /\ b_beam = SomeInt(2)
    /\ candidates_map = LexiconToy
    /\ hmm = HmmToy
    /\ b_seq = <<ni, hao, ni>>
    /\ Len(BeamAfter(2)) = 2
    /\ Len(BeamAfter(3)) = 2
    /\ Len(b_out) = 1

\* a bonus table that is given and defines no pair
NoPair(bonus) == bonus.given /\ DOMAIN bonus.table = {}

\* the session a decoder with this bonus table holds after these tokens
RECURSIVE LayersOf(_, _)
LayersOf(bonus, buffer) ==
    IF buffer = <<>> THEN Session(<<>>, <<>>)
    ELSE LET before == LayersOf(bonus, SubSeq(buffer, 1, Len(buffer) - 1))
         IN  AddPinyinOn(bonus, before.buffer, before.dp, buffer[Len(buffer)])

\* C13: with a bonus table that defines no pair, viterbi_decode and
\* viterbi_topk return what they return without a bonus table, and after any
\* sequence of operations a session holds the layers, and has returned the
\* strings and scores, of a session without a bonus table.
C13_EmptyBonusIsNoBonus ==
    NoPair(bigram_bonus) =>
        /\ b_pc = "viterbi_decode" => b_out = viterbi_decode(BonusNone, b_seq)
        /\ b_pc = "viterbi_topk" => b_out = viterbi_topk(BonusNone, b_seq, b_k, b_beam)
        /\ b_pc = "none" => Session(pinyin_buffer, dp_states) = LayersOf(BonusNone, pinyin_buffer)
        /\ op[1] = "add_pinyin" =>
              ret = get_topk_sequences(
                        AddPinyinOn(BonusNone, pre.buffer, pre.dp, op[2]).dp, 5)
        /\ op[1] = "add_pinyin_prefix" =>
              ret = add_pinyin_prefix_on(BonusNone, pre.dp, op[2])

C13_Witness ==
    /\ NoPair(bigram_bonus)
    /\ hmm = HmmTie
    /\ op[1] = "add_pinyin_prefix"
    /\ op[2] = <<"h">>
    /\ pinyin_buffer = <<ni, hao, ni>>
    /\ Len(dp_states[3]) = 2
    /\ Len(ret) = 3

\* C19: viterbi_topk and get_topk_sequences called with a k that is zero
\* or negative return the empty list, on any lexicon and sequence.
C19_NonPositiveKGivesNothing ==
    /\ (b_pc = "viterbi_topk" /\ b_k <= 0) => b_out = <<>>
    /\ (op[1] = "get_topk_sequences" /\ op[2] <= 0) => ret = <<>>

\* n times NEG_INF, as a float
TimesNegInf(n) == <<0, -n, 0>>

\* every score of the session's layers, of the list get_topk_sequences
\* returned and of the list viterbi_topk returned is at least bound(T), T
\* the number of tokens
ScoresAtLeast(bound(_)) ==
    /\ \A t \in 1..Len(dp_states) : \A i \in 1..Len(dp_states[t]) :
           FGe(ScoreOf(dp_states[t][i]), bound(Len(pinyin_buffer)))
    /\ op[1] = "get_topk_sequences" =>
           \A i \in 1..Len(ret) : FGe(ret[i][2], bound(Len(pinyin_buffer)))
    /\ b_pc = "viterbi_topk" =>
           \A i \in 1..Len(b_out) : FGe(b_out[i][2], bound(Len(b_seq)))

TNegInf(T) == TimesNegInf(T)
TwoTNegInf(T) == TimesNegInf(2 * T)

\* C20 as stated: with no bonus table every score of a layer of a session
\* holding T tokens, of get_topk_sequences and of viterbi_topk on T tokens
\* is at least T times NEG_INF.
C20_Original == ~bigram_bonus.given => ScoresAtLeast(TNegInf)

\* C20 amended: with no bonus table and a store whose entries are at least
\* NEG_INF (or missing), every such score is at least 2 T times NEG_INF:
\* two terms a token, init and emit or trans and emit.
C20_ScoresAtLeastTwoTNegInf == ~bigram_bonus.given => ScoresAtLeast(TwoTNegInf)

\* two tokens on the store without entries: four times NEG_INF, the bound
C20_Witness ==
    /\ ~bigram_bonus.given
    /\ hmm = HmmEmpty
    /\ op[1] = "get_topk_sequences"
    /\ pinyin_buffer = <<ni, hao>>
    /\ Len(ret) = 2
    /\ ret[1][2] = TimesNegInf(4)
    /\ ScoreOf(dp_states[1][1]) = TimesNegInf(2)

-----------------------------------------------------------------------------
(* HMMParams.save and HMMParams.load *)

(***************************************************************************)
(* The file save writes is a JSON document: an object is the sequence of   *)
(* its members <<name, value>>, a number is the text json.dump writes for  *)
(* a float, a sequence of characters.  The stores of the model hold        *)
(* integer-valued floats, written as an optional "-", the decimal digits   *)
(* and ".0".  A key is written as it is (ensure_ascii=False).              *)
(***************************************************************************)
DigitChars == <<"0", "1", "2", "3", "4", "5", "6", "7", "8", "9">>
DigitValue(c) == (CHOOSE d \in 1..10 : DigitChars[d] = c) - 1

\* the decimal digits of n >= 0
RECURSIVE DigitsOf(_)
DigitsOf(n) ==
    IF n < 10 THEN <<DigitChars[n + 1]>>
    ELSE Append(DigitsOf(n \div 10), DigitChars[(n % 10) + 1])

\* float.__repr__ of an integer-valued float
NumberText(n) ==
    (IF n < 0 THEN <<"-">> ELSE <<>>) \o DigitsOf(IF n < 0 THEN -n ELSE n)
        \o <<".", "0">>

\* the value of a sequence of decimal digits
RECURSIVE ValueOf(_)
ValueOf(digits) ==
    IF digits = <<>> THEN 0
    ELSE 10 * ValueOf(SubSeq(digits, 1, Len(digits) - 1))
         + DigitValue(digits[Len(digits)])

\* float(text) for the text of an integer-valued float
ParseNumber(text) ==
    LET negative == text[1] = "-"
        body == IF negative THEN SubSeq(text, 2, Len(text)) ELSE text
        point == CHOOSE i \in 1..Len(body) : body[i] = "."
        whole == ValueOf(SubSeq(body, 1, point - 1))
    IN  IF negative THEN -whole ELSE whole

\* json.dump of a dict of floats: one member for each key
RECURSIVE NumberMembers(_, _)
NumberMembers(d, keys) ==
    IF keys = {} THEN <<>>
    ELSE LET k == CHOOSE k \in keys : TRUE
         IN  <<<<k, NumberText(d[k])>>>> \o NumberMembers(d, keys \ {k})

\* json.dump of a dict of dicts of floats
RECURSIVE DictMembers(_, _)
DictMembers(d, keys) ==
    IF keys = {} THEN <<>>
    ELSE LET k == CHOOSE k \in keys : TRUE
         IN  <<<<k, NumberMembers(d[k], DOMAIN d[k])>>>> \o DictMembers(d, keys \ {k})

\* the value of the last member of a JSON object with this name
MemberOf(members, name) ==
    members[CHOOSE i \in 1..Len(members) :
                /\ members[i][1] = name
                /\ \A j \in (i + 1)..Len(members) : members[j][1] # name][2]

MemberNames(members) == {members[i][1] : i \in 1..Len(members)}

\* json.load of an object of numbers, and of an object of such objects
NumberDict(members) ==
    [k \in MemberNames(members) |-> ParseNumber(MemberOf(members, k))]
NestedDict(members) ==
    [k \in MemberNames(members) |-> NumberDict(MemberOf(members, k))]

\* the document save writes: obj = {'init': ..., 'trans': ..., 'emit': ...}
save(h) ==
    << <<"init", NumberMembers(h.init, DOMAIN h.init)>>,
       <<"trans", DictMembers(h.trans, DOMAIN h.trans)>>,
       <<"emit", DictMembers(h.emit, DOMAIN h.emit)>> >>

\* load passing obj['emit'] for the transitions and obj['trans'] for the emissions
load_swapped(obj) ==
    [init  |-> NumberDict(MemberOf(obj, "init")),
     trans |-> NestedDict(MemberOf(obj, "emit")),
     emit  |-> NestedDict(MemberOf(obj, "trans"))]

\* HMMParams(obj['init'], obj['trans'], obj['emit'])
load(obj) ==
    [init  |-> NumberDict(MemberOf(obj, "init")),
     trans |-> NestedDict(MemberOf(obj, "trans")),
     emit  |-> NestedDict(MemberOf(obj, "emit"))]

-----------------------------------------------------------------------------
(* Calls of the parameter store *)

\* a store with a stored NEG_INF, a zero, a seven-digit value, an outer key
\* whose inner table is empty, and an emission of ha
HmmOdd ==
    [init  |-> [c \in {"You", "Ni", "Ha"} |->
                  CASE c = "You" -> 0 [] c = "Ni" -> NEG_INF [] OTHER -> -1234567],
     trans |-> [c \in {"You", "Ni"} |->
                  IF c = "You" THEN <<>> ELSE [d \in {"Hao"} |-> -20]],
     emit  |-> [c \in {"Ha"} |-> [p \in {ha} |-> -105]]]

Stores == Hmms \cup {HmmOdd}

\* the characters and pinyin the getters are asked about
Chars == {"You", "Ni", "Hao", "Num", "Ha"}
StorePinyins == {ni, hao, ha}

InitStore ==
    /\ hmm \in Stores
    /\ candidates_map = <<>>
    /\ beam_size = 100
    /\ bigram_bonus = BonusNone
    /\ pinyin_buffer = <<>>
    /\ dp_states = <<>>
    /\ op = <<"init", <<>>>>
    /\ ret = <<>>
    /\ pre = Session(<<>>, <<>>)
    /\ undo = <<>>
    /\ b_pc = "none"
    /\ b_seq = <<>>
    /\ b_k = 0
    /\ b_beam = NoInt
    /\ b_out = <<>>
    /\ f_pc = "input"
    /\ f_in = <<>>
    /\ f_out = <<>>
    /\ IMEAppInit

call_get_init(ch) ==
    /\ f_pc = "input"
    /\ f_pc' = "get_init"
    /\ f_in' = <<ch>>
    /\ f_out' = get_init(hmm, ch)
    /\ UNCHANGED <<config_vars, session_vars, batch_vars, driver_vars>>

call_get_trans(prev_ch, ch) ==
    /\ f_pc = "input"
    /\ f_pc' = "get_trans"
    /\ f_in' = <<prev_ch, ch>>
    /\ f_out' = get_trans(hmm, prev_ch, ch)
    /\ UNCHANGED <<config_vars, session_vars, batch_vars, driver_vars>>

call_get_emit(ch, py) ==
    /\ f_pc = "input"
    /\ f_pc' = "get_emit"
    /\ f_in' = <<ch, py>>
    /\ f_out' = get_emit(hmm, ch, py)
    /\ UNCHANGED <<config_vars, session_vars, batch_vars, driver_vars>>

\* hmm.save(path): f_in is the file
call_save ==
    /\ f_pc = "input"
    /\ f_pc' = "save"
    /\ f_in' = save(hmm)
    /\ f_out' = None
    /\ UNCHANGED <<config_vars, session_vars, batch_vars, driver_vars>>

\* HMMParams.load(path) of the file save has written
call_load ==
    /\ f_pc = "save"
    /\ f_pc' = "load"
    /\ f_out' = load(f_in)
    /\ UNCHANGED <<config_vars, session_vars, batch_vars, f_in, driver_vars>>

NextStore ==
    \/ \E ch \in Chars : call_get_init(ch)
    \/ \E prev_ch \in Chars, ch \in Chars : call_get_trans(prev_ch, ch)
    \/ \E ch \in Chars, py \in StorePinyins : call_get_emit(ch, py)
    \/ call_save
    \/ call_load

SpecStore == InitStore /\ [][NextStore]_vars

-----------------------------------------------------------------------------
(* Properties of the parameter store *)

\* C21: for any store get_init, get_trans and get_emit return NEG_INF for
\* every key absent from the tables (for get_trans and get_emit also when
\* the outer key is absent) and the stored value for every present key.
C21_GettersDefaultToNegInf ==
    /\ f_pc = "get_init" =>
          f_out = IF f_in[1] \in DOMAIN hmm.init THEN hmm.init[f_in[1]] ELSE NEG_INF
    /\ f_pc = "get_trans" =>
          IF f_in[1] \notin DOMAIN hmm.trans THEN f_out = NEG_INF
          ELSE IF f_in[2] \notin DOMAIN hmm.trans[f_in[1]] THEN f_out = NEG_INF
          ELSE f_out = hmm.trans[f_in[1]][f_in[2]]
    /\ f_pc = "get_emit" =>
          IF f_in[1] \notin DOMAIN hmm.emit THEN f_out = NEG_INF
          ELSE IF f_in[2] \notin DOMAIN hmm.emit[f_in[1]] THEN f_out = NEG_INF
          ELSE f_out = hmm.emit[f_in[1]][f_in[2]]

\* an outer key that is absent, on a store that has other entries
C21_Witness ==
    /\ f_pc = "get_trans"
    /\ hmm = HmmOdd
    /\ f_in = <<"Hao", "You">>
    /\ f_out = NEG_INF
    /\ DOMAIN hmm.trans # {}

\* C22: loading what save has written gives a store with the init, trans
\* and emit tables of the saved one, so that every getter answers the same
\* on both.
C22_LoadOfSaveIsTheStore ==
    f_pc = "load" =>
        /\ f_out.init = hmm.init
        /\ f_out.trans = hmm.trans
        /\ f_out.emit = hmm.emit
        /\ \A ch \in Chars : get_init(f_out, ch) = get_init(hmm, ch)
        /\ \A prev_ch \in Chars, ch \in Chars :
               get_trans(f_out, prev_ch, ch) = get_trans(hmm, prev_ch, ch)
        /\ \A ch \in Chars, py \in StorePinyins :
               get_emit(f_out, ch, py) = get_emit(hmm, ch, py)

C22_Witness ==
    /\ f_pc = "load"
    /\ hmm = HmmOdd
    /\ MemberOf(MemberOf(f_in, "init"), "Ni")
           = <<"-", "1", "0", "0", "0", "0", "0", "0", "0", "0", "0", ".", "0">>
    /\ MemberOf(MemberOf(f_in, "trans"), "You") = <<>>
    /\ f_out.init["Ha"] = -1234567

-----------------------------------------------------------------------------
(* The scores of viterbi_topk *)

\* C23: for a sequence whose tokens all have candidates, every pair
\* viterbi_topk returns is a string of one candidate per token with the
\* score init of its first character, plus the emit of every character for
\* its token, plus trans and the bonus table's value (0 if none) of every
\* adjacent pair.
C23_TopkScoresAreTotalScores ==
    (b_pc = "viterbi_topk" /\ b_seq # <<>> /\ AllHaveCandidates(b_seq)) =>
        \A i \in 1..Len(b_out) :
            /\ b_out[i][1] \in CandidateStrings(b_seq)
            /\ b_out[i][2] = TotalScore(b_seq, b_out[i][1])

\* a returned string with a pair the bonus table rewards
C23_Witness ==
    /\ b_pc = "viterbi_topk"
    /\ b_seq = <<ni, hao, ni>>
    /\ bigram_bonus = BonusYouNum
    /\ Len(b_out) = 2
    /\ \E i \in 1..Len(b_out) :
           /\ b_out[i][1][1] = "You" /\ b_out[i][1][2] = "Num"
           /\ BonusValue("You", "Num") # 0
           /\ b_out[i][2] = TotalScore(b_seq, b_out[i][1])

-----------------------------------------------------------------------------
(* The layers of a session *)

\* the layer the last add_pinyin built, before any cut to beam_size
BuiltLayer ==
    LET candidates == CandidatesOf(candidates_map, op[2])
    IN  IF candidates = <<>> THEN <<>>
        ELSE IF pre.dp = <<>> \/ LastLayer(pre.dp) = <<>>
             THEN InitLayer(candidates, op[2])
             ELSE ExtendLayerFrom(bigram_bonus, LastLayer(pre.dp), candidates,
                                  op[2], 1, <<>>)

\* C24: after every add_pinyin, whichever branch built the new layer (first
\* token, restart after an empty layer, extension), the new layer holds at
\* most beam_size entries, and when more were built the entries kept are
\* the beam_size highest-scoring ones.
C24_NewLayerWithinBeam ==
    (op[1] = "add_pinyin" /\ op[2] # <<>>) =>
        LET dp_t == LastLayer(dp_states)
        IN  /\ Len(dp_t) <= beam_size
            /\ Len(BuiltLayer) > beam_size =>
                  /\ Len(dp_t) = beam_size
                  /\ \A i \in 1..Len(dp_t) : \E j \in 1..Len(BuiltLayer) :
                         dp_t[i] = BuiltLayer[j]
                  /\ \A i \in 1..Len(dp_t), j \in 1..Len(BuiltLayer) :
                         (\A n \in 1..Len(dp_t) : dp_t[n] # BuiltLayer[j]) =>
                             FGe(ScoreOf(dp_t[i]), ScoreOf(BuiltLayer[j]))

\* C25 as stated: in every reachable session state an entry has
\* back-pointer None only in layer 0; every entry of a layer with index >= 1
\* has a back-pointer that is not None.
C25_Original ==
    \A t \in 1..Len(dp_states) : \A i \in 1..Len(dp_states[t]) :
        BackOf(dp_states[t][i]) = None => t = 1

\* C25 amended: in every reachable session state an entry has back-pointer
\* None exactly when its layer is layer 0 or the layer before it is empty;
\* every entry of a layer that follows a non-empty layer has a back-pointer
\* that is not None.
C25_NoneOnlyInInitLayers ==
    \A t \in 1..Len(dp_states) : \A i \in 1..Len(dp_states[t]) :
        BackOf(dp_states[t][i]) = None <=> (t = 1 \/ dp_states[t - 1] = <<>>)

\* a restart layer at index 1, followed by an extension
C25_Witness ==
    /\ Len(dp_states) = 3
    /\ dp_states[1] = <<>>
    /\ dp_states[2] # <<>>
    /\ \A i \in 1..Len(dp_states[2]) : BackOf(dp_states[2][i]) = None
    /\ dp_states[3] # <<>>
    /\ \A i \in 1..Len(dp_states[3]) : BackOf(dp_states[3][i]) # None

\* C26: in every reachable session state (after any add_pinyin, delete_last
\* and reset, for any beam_size >= 1) every back-pointer of layer t that is
\* not None is a key of layer t - 1.
C26_BackPointersNameKeysOfPreviousLayer ==
    \A t \in 1..Len(dp_states) : \A i \in 1..Len(dp_states[t]) :
        BackOf(dp_states[t][i]) # None =>
            /\ t > 1
            /\ \E j \in 1..Len(dp_states[t - 1]) :
                   dp_states[t - 1][j][1] = BackOf(dp_states[t][i])

\* back-pointers into a layer cut to beam_size, reached again by delete_last
C26_Witness ==
    /\ op[1] = "delete_last"
    /\ beam_size = 1
    /\ Len(dp_states) = 2
    /\ Len(dp_states[1]) = 2
    /\ Len(dp_states[2]) = 1
    /\ BackOf(dp_states[2][1]) = dp_states[1][2][1]

\* s is the sequence of the first Len(s) items of r
IsPrefixOf(s, r) ==
    Len(s) <= Len(r) /\ \A t \in 1..Len(s) : s[t] = r[t]

\* C27: add_pinyin changes no token and no layer that existed (it adds at
\* most a last token and a last layer, also when that layer is empty or was
\* cut to beam_size), and delete_last removes the last token and the last
\* layer only, every earlier token and layer staying as it was.
C27_OlderTokensAndLayersKept ==
    /\ op[1] = "add_pinyin" =>
          /\ IsPrefixOf(pre.buffer, pinyin_buffer)
          /\ IsPrefixOf(pre.dp, dp_states)
          /\ Len(pinyin_buffer) <= Len(pre.buffer) + 1
          /\ Len(dp_states) <= Len(pre.dp) + 1
    /\ op[1] = "delete_last" =>
          /\ IsPrefixOf(pinyin_buffer, pre.buffer)
          /\ IsPrefixOf(dp_states, pre.dp)
          /\ Len(pinyin_buffer) = Max(Len(pre.buffer) - 1, 0)
          /\ Len(dp_states) = Max(Len(pre.dp) - 1, 0)

\* delete_last right after an add_pinyin that added an empty layer to two
\* layers, the first with more than beam_size entries
C27_Witness ==
    /\ op[1] = "delete_last"
    /\ undo # <<>>
    /\ undo[1].dp = dp_states
    /\ Len(pre.dp) = 3
    /\ pre.dp[3] = <<>>
    /\ Len(dp_states) = 2
    /\ beam_size = 1
    /\ Len(dp_states[1]) = 2
    /\ dp_states[1] # dp_states[2]

\* the <<character, score>> pairs of a layer, and of the last characters of
\* a list of <<string, score>> results
LayerPairs(layer) == {<<layer[i][1], ScoreOf(layer[i])>> : i \in 1..Len(layer)}
TerminalPairs(results) ==
    {<<results[i][1][Len(results[i][1])], results[i][2]>> : i \in 1..Len(results)}

\* C28: in every reachable session state (empty, last layer non-empty, last
\* layer empty) and for every pinyin with candidates, the <<terminal
\* character, score>> pairs _predict_with_pinyin computes are the
\* <<character, score>> entries of the layer add_pinyin would build from
\* that state.
C28_PredictIsTheLayerOfAppend ==
    \A i \in 1..Len(candidates_map) :
        LET pinyin == candidates_map[i][1]
        IN  candidates_map[i][2] # <<>> =>
                TerminalPairs(predict_with_pinyin(bigram_bonus, dp_states, pinyin))
                    = LayerPairs(LastLayer(AddPinyinOn(bigram_bonus, pinyin_buffer,
                                                       dp_states, pinyin).dp))

-----------------------------------------------------------------------------
(* The syllables add_pinyin_prefix simulates *)

\* the indices of the keys of the lexicon that start with the prefix and
\* have fewer than ten such keys before them
FirstTenMatching(prefix) ==
    {i \in 1..Len(candidates_map) :
        /\ StartsWith(candidates_map[i][1], prefix)
        /\ Cardinality({j \in 1..(i - 1) :
                           StartsWith(candidates_map[j][1], prefix)}) < 10}

\* the characters that are candidates of matching keys after the tenth only
OnlyThroughLater(prefix) ==
    {ch \in UNION {Range(candidates_map[i][2]) : i \in 1..Len(candidates_map)} :
        /\ \E i \in 1..Len(candidates_map) :
               /\ StartsWith(candidates_map[i][1], prefix)
               /\ ch \in Range(candidates_map[i][2])
        /\ \A i \in FirstTenMatching(prefix) : ch \notin Range(candidates_map[i][2])}

\* C29: add_pinyin_prefix simulates at most ten syllables, the first ten
\* keys of the lexicon, in its order, that start with the prefix: every
\* returned string ends with a candidate of one of them, and no character
\* that only an eleventh or later matching key offers ends a returned string.
C29_OnlyFirstTenSyllables ==
    PrefixMatches =>
        /\ Cardinality(FirstTenMatching(op[2])) <= 10
        /\ \A n \in 1..Len(ret) :
               LET ch == ret[n][1][Len(ret[n][1])]
               IN  /\ \E i \in FirstTenMatching(op[2]) : ch \in Range(candidates_map[i][2])
                   /\ ch \notin OnlyThroughLater(op[2])

\* eleven keys match, and the candidate of the eleventh, which would score
\* above every returned string, is not returned
C29_Witness ==
    /\ PrefixMatches
    /\ Len(MatchingPinyins(op[2])) = 11
    /\ OnlyThroughLater(op[2]) = {"You"}
    /\ Len(ret) = 5
    /\ \A n \in 1..Len(ret) :
           FGt(predict_with_pinyin(bigram_bonus, dp_states, xk)[1][2], ret[n][2])

-----------------------------------------------------------------------------
(* build_base_pinyin_map and tone_to_base *)

\* a pinyin with a tone is a sequence of characters ending in a digit
Letters ==
    {"a", "b", "c", "d", "e", "f", "g", "h", "i", "j", "k", "l", "m",
     "n", "o", "p", "q", "r", "s", "t", "u", "v", "w", "x", "y", "z"}
ToneDigits == {"1", "2", "3", "4", "5"}

\* PINYIN_TONE_RE.match(p): one or more of a-z, one of 1-5, the end
\* (for a p without a line break)
tone_to_base(p) ==
    IF /\ Len(p) >= 2
       /\ p[Len(p)] \in ToneDigits
       /\ \A i \in 1..(Len(p) - 1) : p[i] \in Letters
    THEN SubSeq(p, 1, Len(p) - 1)
    ELSE p

\* the code points of the characters, the order sorted() puts them in
CodePoint == [c \in {"You", "Ni", "Hao"} |->
                 CASE c = "You" -> 20320 [] c = "Hao" -> 22909 [] OTHER -> 23612]

\* char_priority is None, or a dict of integers
NoPriority == [given |-> FALSE, table |-> <<>>]
Priority(table) == [given |-> TRUE, table |-> table]

\* char_priority.get(c, 0)
PriorityOf(char_priority, c) ==
    IF c \in DOMAIN char_priority.table THEN char_priority.table[c] ELSE 0

\* the sort key with the priority taken ascending
BeforeAscending(char_priority, c, d) ==
    IF char_priority.given /\ DOMAIN char_priority.table # {}
    THEN \/ PriorityOf(char_priority, c) < PriorityOf(char_priority, d)
         \/ /\ PriorityOf(char_priority, c) = PriorityOf(char_priority, d)
            /\ CodePoint[c] < CodePoint[d]
    ELSE CodePoint[c] < CodePoint[d]

\* c sorts before d: by (-char_priority.get(c, 0), c) when char_priority is
\* not None and not empty, by c otherwise
Before(char_priority, c, d) ==
    IF char_priority.given /\ DOMAIN char_priority.table # {}
    THEN \/ -PriorityOf(char_priority, c) < -PriorityOf(char_priority, d)
         \/ /\ -PriorityOf(char_priority, c) = -PriorityOf(char_priority, d)
            /\ CodePoint[c] < CodePoint[d]
    ELSE CodePoint[c] < CodePoint[d]

\* sorted(chars, key=...) of a set of characters
RECURSIVE SortedChars(_, _)
SortedChars(char_priority, chars) ==
    IF chars = {} THEN <<>>
    ELSE LET first == CHOOSE c \in chars :
                          \A d \in chars \ {c} : Before(char_priority, c, d)
         IN  <<first>> \o SortedChars(char_priority, chars \ {first})

\* base_candidates[base].add(ch), base_candidates a defaultdict(set)
AddCandidate(base_candidates, base, ch) ==
    IF DictHas(base_candidates, base)
    THEN DictPut(base_candidates, base, DictGet(base_candidates, base) \cup {ch})
    ELSE DictPut(base_candidates, base, {ch})

\* for ch in chars: base_candidates[base].add(ch)
RECURSIVE AddChars(_, _, _, _)
AddChars(base_candidates, base, chars, j) ==
    IF j > Len(chars) THEN base_candidates
    ELSE AddChars(AddCandidate(base_candidates, base, chars[j]), base, chars, j + 1)

\* the loop over pinyin_tone_to_chars.items()
RECURSIVE FromTonepy(_, _, _)
FromTonepy(pinyin_tone_to_chars, i, base_candidates) ==
    IF i > Len(pinyin_tone_to_chars) THEN base_candidates
    ELSE FromTonepy(pinyin_tone_to_chars, i + 1,
             AddChars(base_candidates, tone_to_base(pinyin_tone_to_chars[i][1]),
                      pinyin_tone_to_chars[i][2], 1))

\* for py_tone in py_list: base_candidates[tone_to_base(py_tone)].add(ch)
RECURSIVE AddReadings(_, _, _, _)
AddReadings(base_candidates, ch, py_list, j) ==
    IF j > Len(py_list) THEN base_candidates
    ELSE AddReadings(AddCandidate(base_candidates, tone_to_base(py_list[j]), ch),
                     ch, py_list, j + 1)

\* the loop over char_to_pinyins.items()
RECURSIVE FromChars(_, _, _)
FromChars(char_to_pinyins, i, base_candidates) ==
    IF i > Len(char_to_pinyins) THEN base_candidates
    ELSE FromChars(char_to_pinyins, i + 1,
             AddReadings(base_candidates, char_to_pinyins[i][1],
                         char_to_pinyins[i][2], 1))

\* base_map: for every key of base_candidates, in their order, its sorted characters
build_base_pinyin_map(char_to_pinyins, pinyin_tone_to_chars, char_priority) ==
    LET base_candidates ==
            FromChars(char_to_pinyins, 1,
                      FromTonepy(pinyin_tone_to_chars, 1, <<>>))
    IN  [n \in 1..Len(base_candidates) |->
            <<base_candidates[n][1],
              SortedChars(char_priority, base_candidates[n][2])>>]

\* readings: with a tone, without one, with a digit that is no tone, and
\* with a letter outside a-z
ni3 == <<"n", "i", "3">>
ni2 == <<"n", "i", "2">>
hao3 == <<"h", "a", "o", "3">>
ni6 == <<"n", "i", "6">>
Ni3 == <<"N", "i", "3">>
Readings == {ni3, ni2, hao3, ni, ni6, Ni3, <<"3">>}

\* char_to_pinyins tables (Chara.gb): a character and its readings
CharTables ==
    {<<>>,
     << <<"You", <<ni3>>>>, <<"Hao", <<hao3, ni6>>>> >>,
     << <<"Ni", <<ni2, ni>>>>, <<"You", <<ni3, ni2>>>> >>,
     << <<"Hao", <<Ni3, ni3>>>>, <<"Ni", <<>>>> >>}

\* pinyin_tone_to_chars tables (TONEPY.txt): a reading and its characters
ToneTables ==
    {<<>>,
     << <<ni3, <<"You", "Ni">>>>, <<hao3, <<"Hao">>>> >>,
     << <<ni2, <<"Ni", "You", "Ni">>>>, <<ni3, <<"You">>>>, <<hao3, <<>>>> >>,
     << <<ni, <<"Hao">>>>, <<ni6, <<"You">>>> >>}

Priorities ==
    {NoPriority,
     Priority(<<>>),
     Priority([c \in {"You", "Ni"} |-> 5]),
     Priority([c \in {"Ni", "Hao"} |-> IF c = "Ni" THEN 9 ELSE -1]),
     Priority([c \in {"You", "Ni", "Hao"} |->
                 CASE c = "Hao" -> 2 [] c = "You" -> 1 [] OTHER -> 0])}

InitLexicon ==
    /\ hmm = HmmEmpty
    /\ candidates_map = <<>>
    /\ beam_size = 100
    /\ bigram_bonus = BonusNone
    /\ pinyin_buffer = <<>>
    /\ dp_states = <<>>
    /\ op = <<"init", <<>>>>
    /\ ret = <<>>
    /\ pre = Session(<<>>, <<>>)
    /\ undo = <<>>
    /\ b_pc = "none"
    /\ b_seq = <<>>
    /\ b_k = 0
    /\ b_beam = NoInt
    /\ b_out = <<>>
    /\ f_pc = "input"
    /\ \E char_to_pinyins \in CharTables, pinyin_tone_to_chars \in ToneTables,
          char_priority \in Priorities :
           f_in = <<char_to_pinyins, pinyin_tone_to_chars, char_priority>>
    /\ f_out = <<>>
    /\ IMEAppInit

call_build_base_pinyin_map ==
    /\ f_pc = "input"
    /\ f_pc' = "build_base_pinyin_map"
    /\ f_out' = build_base_pinyin_map(f_in[1], f_in[2], f_in[3])
    /\ UNCHANGED <<config_vars, session_vars, batch_vars, f_in, driver_vars>>

call_tone_to_base(p) ==
    /\ f_pc = "input"
    /\ f_pc' = "tone_to_base"
    /\ f_in' = <<p>>
    /\ f_out' = tone_to_base(p)
    /\ UNCHANGED <<config_vars, session_vars, batch_vars, driver_vars>>

NextLexicon ==
    \/ call_build_base_pinyin_map
    \/ \E p \in Readings : call_tone_to_base(p)

SpecLexicon == InitLexicon /\ [][NextLexicon]_vars

\* the characters of the input tables that have a reading with this base
CharsWithBase(char_to_pinyins, pinyin_tone_to_chars, base) ==
    UNION {Range(pinyin_tone_to_chars[i][2]) :
              i \in {n \in 1..Len(pinyin_tone_to_chars) :
                        tone_to_base(pinyin_tone_to_chars[n][1]) = base}}
    \cup {char_to_pinyins[i][1] :
            i \in {n \in 1..Len(char_to_pinyins) :
                      \E j \in 1..Len(char_to_pinyins[n][2]) :
                          tone_to_base(char_to_pinyins[n][2][j]) = base}}

\* the bases of the readings of the input tables
BasesOf(char_to_pinyins, pinyin_tone_to_chars) ==
    {tone_to_base(pinyin_tone_to_chars[i][1]) : i \in 1..Len(pinyin_tone_to_chars)}
    \cup UNION {{tone_to_base(char_to_pinyins[i][2][j]) :
                    j \in 1..Len(char_to_pinyins[i][2])} :
                i \in 1..Len(char_to_pinyins)}

\* C30: build_base_pinyin_map gives, for every key, a list without a
\* repeated character holding exactly the characters that have a reading
\* with that base in one of the two tables, in the order of descending
\* priority (0 for a character without one) and then of the characters;
\* the keys are the bases that some character has, each once.
C30_BaseMapIsSortedUnion ==
    f_pc = "build_base_pinyin_map" =>
        LET char_to_pinyins == f_in[1]
            pinyin_tone_to_chars == f_in[2]
            char_priority == f_in[3]
            base_map == f_out
        IN  /\ \A m, n \in 1..Len(base_map) : m # n => base_map[m][1] # base_map[n][1]
            /\ {base_map[n][1] : n \in 1..Len(base_map)}
                   = {base \in BasesOf(char_to_pinyins, pinyin_tone_to_chars) :
                         CharsWithBase(char_to_pinyins, pinyin_tone_to_chars, base) # {}}
            /\ \A n \in 1..Len(base_map) :
                   LET chars == base_map[n][2]
                   IN  /\ \A i, j \in 1..Len(chars) : i # j => chars[i] # chars[j]
                       /\ Range(chars) = CharsWithBase(char_to_pinyins,
                                                       pinyin_tone_to_chars,
                                                       base_map[n][1])
                       /\ \A i, j \in 1..Len(chars) : i < j =>
                              \/ PriorityOf(char_priority, chars[i])
                                     > PriorityOf(char_priority, chars[j])
                              \/ /\ PriorityOf(char_priority, chars[i])
                                        = PriorityOf(char_priority, chars[j])
                                 /\ CodePoint[chars[i]] < CodePoint[chars[j]]

\* three characters under one base, from both tables and from readings of
\* two tones, ordered by priority against their code points; a reading
\* whose digit is no tone kept as its own key
C30_Witness ==
    /\ f_pc = "build_base_pinyin_map"
    /\ f_in[1] = << <<"You", <<ni3>>>>, <<"Hao", <<hao3, ni6>>>> >>
    /\ f_in[2] = << <<ni2, <<"Ni", "You", "Ni">>>>, <<ni3, <<"You">>>>, <<hao3, <<>>>> >>
    /\ f_in[3] = Priority([c \in {"Ni", "Hao"} |-> IF c = "Ni" THEN 9 ELSE -1])
    /\ f_out = << <<ni, <<"Ni", "You">>>>, <<hao, <<"Hao">>>>, <<ni6, <<"Hao">>>> >>

-----------------------------------------------------------------------------
(* The session against the batch decoder *)

\* C31: for a non-empty sequence whose tokens all have candidates and a
\* beam_size at least the largest number of candidates of a token, a new
\* session given the tokens one by one holds the layers of this session,
\* and the first string of get_topk_sequences is the string viterbi_decode
\* returns for the sequence with the same store and bonus table.
C31_SessionBestIsViterbiDecode ==
    (/\ pinyin_buffer # <<>>
     /\ AllHaveCandidates(pinyin_buffer)
     /\ beam_size >= MaxBranching(pinyin_buffer)) =>
        LET fresh == LayersOf(bigram_bonus, pinyin_buffer)
            first == get_topk_sequences(fresh.dp, 1)
        IN  /\ fresh.dp = dp_states
            /\ Len(first) = 1
            /\ first[1][1] = viterbi_decode(bigram_bonus, pinyin_buffer)
            /\ op[1] = "add_pinyin" => ret[1][1] = first[1][1]

\* three tokens, the best string using a pair the bonus table rewards
C31_Witness ==
    /\ op[1] = "add_pinyin"
    /\ pinyin_buffer = <<ni, hao, ni>>
    /\ bigram_bonus = BonusYouNum
    /\ beam_size >= MaxBranching(pinyin_buffer)
    /\ ret[1][1] = viterbi_decode(bigram_bonus, pinyin_buffer)
    /\ ret[1][1][1] = "You" /\ ret[1][1][2] = "Num"
    /\ ret[1][1] # viterbi_decode(BonusNone, pinyin_buffer)

-----------------------------------------------------------------------------
(* The batch decoders on tokens without candidates *)

\* C32: in viterbi_decode, once a token before the last has no candidates,
\* every later layer holds score -inf and back-pointer None for all its
\* characters; the result is then the first candidate of the last token, one
\* character, when the last token has candidates, and the empty string when
\* it has none.
C32_DecodeAfterEmptyLayer ==
    (/\ b_pc = "viterbi_decode"
     /\ FirstWithout(b_seq) # 0
     /\ FirstWithout(b_seq) < Len(b_seq)) =>
        LET dp == DecodeLayers(bigram_bonus, b_seq, Len(b_seq))
            last_cands == CandidatesOf(candidates_map, b_seq[Len(b_seq)])
        IN  /\ \A t \in (FirstWithout(b_seq) + 1)..Len(b_seq) :
                   /\ Len(dp[t]) = Cardinality(Range(CandidatesOf(candidates_map, b_seq[t])))
                   /\ \A i \in 1..Len(dp[t]) :
                          ScoreOf(dp[t][i]) = MINUS_INF /\ BackOf(dp[t][i]) = None
            /\ b_out = IF last_cands # <<>> THEN <<last_cands[1]>> ELSE <<>>

\* the first candidate returned although the store prefers the second
C32_Witness ==
    /\ b_pc = "viterbi_decode"
    /\ b_seq = <<hao, xx, ni>>
    /\ candidates_map = LexiconWide
    /\ hmm = HmmToy
    /\ b_out = <<"Ni">>
    /\ get_init(hmm, "You") > get_init(hmm, "Ni")

\* C33: viterbi_topk with beam_size >= 1 skips every token after the first
\* that has no candidates: when the first token has candidates it returns
\* what it returns for the sequence without those tokens, strings with one
\* character for each token that has candidates; when the first token has
\* no candidates it returns the empty list, whatever the later tokens.
C33_TopkSkipsAllButTheFirst ==
    (b_pc = "viterbi_topk" /\ b_seq # <<>> /\ EffectiveBeam >= 1) =>
        /\ HasCandidates(b_seq[1]) =>
              /\ b_out = viterbi_topk(bigram_bonus, WithCandidates(b_seq), b_k, b_beam)
              /\ \A i \in 1..Len(b_out) :
                     Len(b_out[i][1]) = Len(WithCandidates(b_seq))
        /\ ~HasCandidates(b_seq[1]) => b_out = <<>>

\* a token without candidates between two that have some
C33_Witness ==
    /\ b_pc = "viterbi_topk"
    /\ b_seq = <<hao, xx, ni>>
    /\ b_beam = SomeInt(2)
    /\ b_k = 2
    /\ Len(b_out) = 2
    /\ Len(b_out[1][1]) = 2
    /\ b_out[1][1][2] \in Range(CandidatesOf(candidates_map, ni))

-----------------------------------------------------------------------------
(* The calls of a session that change nothing *)

\* C34: add_pinyin with the empty string leaves the buffer and the layers
\* as they were, pushes no layer, and returns what get_topk_sequences(5)
\* returns for the session.
C34_EmptyPinyinChangesNothing ==
    (op[1] = "add_pinyin" /\ op[2] = <<>>) =>
        /\ pinyin_buffer = pre.buffer
        /\ dp_states = pre.dp
        /\ Len(dp_states) = Len(pre.dp)
        /\ ret = get_topk_sequences(pre.dp, 5)

C34_Witness ==
    /\ op[1] = "add_pinyin"
    /\ op[2] = <<>>
    /\ Len(pre.buffer) = 2
    /\ pinyin_buffer = pre.buffer
    /\ Len(ret) >= 2

\* the number of entries of the last layer, 0 for a session without layers
LastLayerSize == IF dp_states = <<>> THEN 0 ELSE Len(LastLayer(dp_states))

\* C35: for k >= 0 get_topk_sequences(k) returns min(k, size of the last
\* layer) results; their final characters are pairwise distinct, and the
\* score of each is the score the last layer stores for its final character.
C35_TopkIsOnePathPerFinalCharacter ==
    (op[1] = "get_topk_sequences" /\ op[2] >= 0) =>
        /\ Len(ret) = Min(op[2], LastLayerSize)
        /\ \A i, j \in 1..Len(ret) :
               i # j => ret[i][1][Len(ret[i][1])] # ret[j][1][Len(ret[j][1])]
        /\ \A i \in 1..Len(ret) :
               /\ ret[i][1] # <<>>
               /\ \E n \in 1..LastLayerSize :
                      /\ LastLayer(dp_states)[n][1] = ret[i][1][Len(ret[i][1])]
                      /\ ScoreOf(LastLayer(dp_states)[n]) = ret[i][2]

\* k below the size of the last layer, after two tokens
C35_Witness ==
    /\ op[1] = "get_topk_sequences"
    /\ op[2] = 2
    /\ Len(dp_states) = 2
    /\ LastLayerSize = 3
    /\ Len(ret) = 2
    /\ Len(ret[1][1]) = 2

\* no key of the lexicon starts with the prefix
NoKeyStartsWith(prefix) ==
    \A i \in 1..Len(candidates_map) : ~StartsWith(candidates_map[i][1], prefix)

\* C36: add_pinyin_prefix with the empty prefix, or with a prefix no key of
\* the lexicon starts with, returns the list get_topk_sequences(5) returns
\* for the session and leaves the session as it was.
C36_UnmatchedPrefixGivesTopk ==
    (op[1] = "add_pinyin_prefix" /\ (op[2] = <<>> \/ NoKeyStartsWith(op[2]))) =>
        /\ ret = get_topk_sequences(dp_states, 5)
        /\ pinyin_buffer = pre.buffer
        /\ dp_states = pre.dp

\* a prefix that no key starts with, on a session with two tokens
C36_Witness ==
    /\ op[1] = "add_pinyin_prefix"
    /\ op[2] = <<"x">>
    /\ NoKeyStartsWith(op[2])
    /\ Len(pinyin_buffer) = 2
    /\ ret # <<>>
    /\ Len(ret[1][1]) = 2

-----------------------------------------------------------------------------
(* The IME driver: IMEApp and its key events                               *)
(*                                                                         *)
(* The driver owns one session, built on lexicon['base_pinyin_to_chars']   *)
(* and the loaded store with beam_size 100 and no bonus table.  A key      *)
(* event runs _handle_key_press to its end.  The letters typed, the text   *)
(* confirmed and the button texts are sequences of characters.  The        *)
(* histories op, ret, pre and undo record the calls a session is given     *)
(* directly; the driver's steps leave them.                                *)
(***************************************************************************)

\* the letters of the keyboard the model presses
DriverLetters == {"h", "a"}
\* the digit keys Key_1 .. Key_9
DigitKeys == 1..9
\* longest IMEApp.pinyin_buffer
MaxTyped == 2
\* most tokens the driver's session holds
MaxTokens == 2
\* longest IMEApp.confirmed_text
MaxText == 2

\* the fields a key event reads and writes
Driver(typed, buffer, dp, text, inputting, buttons) ==
    [typed |-> typed, buffer |-> buffer, dp |-> dp, text |-> text,
     inputting |-> inputting, buttons |-> buttons]

DriverNow ==
    Driver(ime_pinyin_buffer, pinyin_buffer, dp_states, confirmed_text,
           is_inputting, candidate_buttons)

\* f'{i+1}. {text}' for the button at index i, counted from 0
ButtonText(i, text) == DigitsOf(i + 1) \o <<".", " ">> \o text

\* _show_input_ui and _hide_input_ui
show_input_ui(d) == [d EXCEPT !.inputting = TRUE]
hide_input_ui(d) == [d EXCEPT !.inputting = FALSE]

\* _update_display: the prefix prediction while letters are typed, else
\* the top_k sequences of the session, written on the buttons
update_display(d) ==
    LET candidates ==
            IF d.typed # <<>>
            THEN add_pinyin_prefix_on(bigram_bonus, d.dp, d.typed)
            ELSE get_topk_sequences(d.dp, top_k)
    IN  [d EXCEPT !.buttons =
            [b \in 1..ButtonCount |->
                IF b - 1 < Len(candidates)
                THEN ButtonText(b - 1, candidates[b][1])
                ELSE <<>>]]

\* the driver after decoder.add_pinyin(pinyin); pinyin_buffer = ""; _update_display()
AddToken(d, pinyin) ==
    LET after == AddPinyinOn(bigram_bonus, d.buffer, d.dp, pinyin)
    IN  update_display([d EXCEPT !.buffer = after.buffer, !.dp = after.dp,
                                 !.typed = <<>>])

\* _confirm_pinyin adding whatever was typed
confirm_pinyin_as_typed(d) ==
    IF d.typed = <<>> THEN d
    ELSE AddToken(d, d.typed)

\* _confirm_pinyin
confirm_pinyin(d) ==
    IF d.typed = <<>> THEN d
    ELSE IF DictHas(candidates_map, d.typed) THEN AddToken(d, d.typed)
    ELSE LET matching == MatchingPinyins(d.typed)
         IN  IF matching # <<>> THEN AddToken(d, matching[1]) ELSE d

\* _commit_text
commit_text(d, text) ==
    LET after == ResetOn(d.buffer, d.dp)
    IN  hide_input_ui([d EXCEPT !.text = d.text \o text,
                                !.buffer = after.buffer, !.dp = after.dp,
                                !.typed = <<>>])

\* _clear_input
clear_input(d) ==
    LET after == ResetOn(d.buffer, d.dp)
    IN  hide_input_ui([d EXCEPT !.buffer = after.buffer, !.dp = after.dp,
                                !.typed = <<>>])

\* _handle_letter_input
handle_letter_input(d, letter) ==
    update_display(show_input_ui([d EXCEPT !.typed = Append(d.typed, letter)]))

\* _handle_backspace
handle_backspace(d) ==
    IF d.typed # <<>>
    THEN LET shorter == [d EXCEPT !.typed = SubSeq(d.typed, 1, Len(d.typed) - 1)]
         IN  IF shorter.typed = <<>> /\ ~shorter.inputting
             THEN hide_input_ui(shorter)
             ELSE update_display(shorter)
    ELSE IF d.buffer # <<>>
    THEN LET after == DeleteLastOn(d.buffer, d.dp)
         IN  update_display([d EXCEPT !.buffer = after.buffer, !.dp = after.dp])
    ELSE d

\* _select_candidate(index), index counted from 0.  candidate_buttons[index]
\* raises IndexError for an index past the last button: the handler ends
\* there and no field is written.
select_candidate(d, index) ==
    IF index >= ButtonCount THEN d
    ELSE IF d.buttons[index + 1] = <<>> THEN d
    ELSE LET confirmed == IF d.typed # <<>> THEN confirm_pinyin(d) ELSE d
             candidates == get_topk_sequences(confirmed.dp, top_k)
         IN  IF index < Len(candidates)
             THEN commit_text(confirmed, candidates[index + 1][1])
             ELSE confirmed

\* _commit_best_candidate
commit_best_candidate(d) ==
    LET confirmed == IF d.typed # <<>> THEN confirm_pinyin(d) ELSE d
        candidates == get_topk_sequences(confirmed.dp, 1)
    IN  IF candidates # <<>>
        THEN commit_text(confirmed, candidates[1][1])
        ELSE confirmed

\* the fields after a key event, within the bounds of the model
Becomes(after) ==
    /\ Len(after.typed) <= MaxTyped
    /\ Len(after.buffer) <= MaxTokens
    /\ Len(after.text) <= MaxText
    /\ ime_pinyin_buffer' = after.typed
    /\ pinyin_buffer' = after.buffer
    /\ dp_states' = after.dp
    /\ confirmed_text' = after.text
    /\ is_inputting' = after.inputting
    /\ candidate_buttons' = after.buttons
    /\ UNCHANGED <<config_vars, op, ret, pre, undo, batch_vars, call_vars>>

\* _handle_key_press, one action for each branch that handles the key
key_Escape ==
    /\ last_key' = <<"Escape">>
    /\ Becomes(clear_input(DriverNow))

key_digit(n) ==
    /\ last_key' = <<"digit">>
    /\ Becomes(select_candidate(DriverNow, n - 1))

key_Return ==
    /\ last_key' = <<"Return">>
    /\ Becomes(commit_best_candidate(DriverNow))

key_Space ==
    /\ last_key' = <<"Space">>
    /\ Becomes(confirm_pinyin(DriverNow))

key_Backspace ==
    /\ last_key' = <<"Backspace">>
    /\ Becomes(handle_backspace(DriverNow))

key_letter(letter) ==
    /\ last_key' = <<"letter">>
    /\ Becomes(handle_letter_input(DriverNow, letter))

\* IMEApp.__init__ with _load_resources: the decoder on the loaded lexicon
\* and store
InitDriver ==
    /\ candidates_map \in Lexicons
    /\ hmm = HmmToy
    /\ beam_size = 100
    /\ bigram_bonus = BonusNone
    /\ pinyin_buffer = <<>>
    /\ dp_states = <<>>
    /\ op = <<"init", <<>>>>
    /\ ret = <<>>
    /\ pre = Session(<<>>, <<>>)
    /\ undo = <<>>
    /\ b_pc = "none"
    /\ b_seq = <<>>
    /\ b_k = 0
    /\ b_beam = NoInt
    /\ b_out = <<>>
    /\ f_pc = "none"
    /\ f_in = <<>>
    /\ f_out = <<>>
    /\ IMEAppInit

NextDriver ==
    \/ key_Escape
    \/ \E n \in DigitKeys : key_digit(n)
    \/ key_Return
    \/ key_Space
    \/ key_Backspace
    \/ \E letter \in DriverLetters : key_letter(letter)

SpecDriver == InitDriver /\ [][NextDriver]_vars

-----------------------------------------------------------------------------
(* The driver's session holds lexicon keys only *)

\* every token of the session's pinyin_buffer is a key of the lexicon
TokensAreKeys ==
    \A t \in 1..Len(pinyin_buffer) : DictHas(candidates_map, pinyin_buffer[t])

\* the tokens Space is to commit for the letters typed: the letters if
\* they are a key, else the first key that starts with them, else none
SpaceCommits(typed) ==
    LET starting == {i \in 1..Len(candidates_map) :
                        StartsWith(candidates_map[i][1], typed)}
    IN  IF typed = <<>> THEN <<>>
        ELSE IF \E i \in 1..Len(candidates_map) : candidates_map[i][1] = typed
        THEN <<typed>>
        ELSE IF starting # {}
        THEN <<candidates_map[CHOOSE i \in starting :
                                  \A j \in starting : i <= j][1]>>
        ELSE <<>>

\* a step of Space appends these tokens to the session and no other, and
\* keeps the letters when there is none
SpaceRule ==
    last_key' = <<"Space">> =>
        /\ pinyin_buffer' = pinyin_buffer \o SpaceCommits(ime_pinyin_buffer)
        /\ SpaceCommits(ime_pinyin_buffer) = <<>> =>
               ime_pinyin_buffer' = ime_pinyin_buffer

\* a step that adds to confirmed_text leaves the session empty and no
\* letter typed
CommitRule ==
    confirmed_text' # confirmed_text =>
        /\ pinyin_buffer' = <<>>
        /\ dp_states' = <<>>
        /\ ime_pinyin_buffer' = <<>>

\* C37: after any sequence of key events every token of the decoder's
\* buffer is a key of base_pinyin_to_chars; Space commits the letters typed
\* only if they are a key, otherwise the first key that has them as prefix,
\* otherwise nothing; and a step that commits text to the output resets
\* the session to empty and clears the letters typed in that same step.
C37_DriverCommitsKeysAndResetsOnCommit ==
    /\ []TokensAreKeys
    /\ [][SpaceRule /\ CommitRule]_vars

\* text has been committed before, and then Space has committed "ha" as
\* the key it is and "h" as hao, the first key starting with it (no "o"
\* is typed in the model)
C37_Witness ==
    /\ last_key = <<"Space">>
    /\ pinyin_buffer = <<ha, hao>>
    /\ ime_pinyin_buffer = <<>>
    /\ confirmed_text # <<>>
    /\ dp_states # <<>>

=============================================================================
